---- MODULE Spec2Model ----
(***************************************************************************)
(* Hash-based session history of front-util/router.                        *)
(*                                                                         *)
(* The store (createHashNavigation, src/unnamed/part_006 with the helpers  *)
(* of src/unnamed/part_002) keeps a list of history entries and a current  *)
(* index, mirrors every programmatic navigation into window.history and    *)
(* reconciles itself on the window's hashchange event.  The host (the      *)
(* browser's session history, spec section 6) is modelled beside it: a     *)
(* stack of (url, state) records, a current position, the traversals that  *)
(* history.go/back/forward have queued and the hashchange events waiting   *)
(* to be dispatched.                                                       *)
(*                                                                         *)
(* A string is a sequence of one-character strings, so that getHash and    *)
(* createHash are computed character by character.  Every URL has the same *)
(* base (origin + path); a URL is represented by what follows the base:    *)
(* <<>> for the bare base, <<"#", "/", "a">> for base#/a.                  *)
(* Indexes are 0-based as in the code: entry i of the code is entries[i+1].*)
(***************************************************************************)
EXTENDS Integers, Sequences, FiniteSets, TLC

(***************************************************************************)
(* Bounds of the model.                                                    *)
(***************************************************************************)
\* history entries the store may create (generateRandomId calls) in one run
MaxKeys == 3
\* the same, in the runs of navigation alone
NavKeys == 4
\* the same, in the runs that follow one long series of pushes
DeepKeys == 5
\* host tasks (queued traversals + undelivered hashchange events) in flight
MaxTasks == 1
\* the same, in the runs that follow one long series of pushes
DeepTasks == 2
\* records the host's own stack may hold
MaxHist == 4

\* the callbacks the application may subscribe
SubIds == {1, 2}

(***************************************************************************)
(* Values.                                                                 *)
(***************************************************************************)
\* NavigationState values: JS undefined, null, {} and two distinct objects
Undef == "undefined"
Null == "null"
EmptyObj == "{}"
S1 == "{v:1}"
S2 == "{v:2}"

\* a string field read from a value that has no such field (JS undefined)
NoStr == <<"undefined">>

\* hashes the application navigates to: "", "a", "b", "/"
Hashes == {<<>>, <<"a">>, <<"b">>, <<"/">>}
\* option states the application passes (undefined = no state given)
OptStates == {Undef, S1, S2}
\* locations the document may be opened at: base, base#/a
InitUrls == {<<>>, <<"#", "/", "a">>}
\* fragments the user types into the address bar: base#/a, base#/b, base#b
ManualUrls == {<<"#", "/", "a">>, <<"#", "/", "b">>, <<"#", "b">>}

\* JS truthiness of a state value: undefined and null are falsy, objects truthy
Truthy(s) == s \notin {Undef, Null}

\* JSON.stringify of a state value (undefined stringifies to undefined)
JsonStringify(s) ==
    CASE s = Undef -> "undefined"
      [] s = Null -> "null"
      [] s = EmptyObj -> "{}"
      [] s = S1 -> "{\"v\":1}"
      [] s = S2 -> "{\"v\":2}"

(***************************************************************************)
(* helpers (src/unnamed/part_002)                                          *)
(***************************************************************************)
\* String.prototype.replace(c, ''): drop the first occurrence of character c
RECURSIVE RemoveFirst(_, _)
RemoveFirst(str, c) ==
    IF str = <<>> THEN <<>>
    ELSE IF Head(str) = c THEN Tail(str)
    ELSE <<Head(str)>> \o RemoveFirst(Tail(str), c)

\* URL.hash: "#" + fragment, or "" when the URL has no (or an empty) fragment
UrlHash(url) == IF Len(url) <= 1 THEN <<>> ELSE url

\* String.prototype.slice(1)
Slice1(str) == IF str = <<>> THEN <<>> ELSE Tail(str)

\* getHash: urlObject.hash.slice(1).replace('/', '') || '/'
getHash(url) ==
    LET h == RemoveFirst(Slice1(UrlHash(url)), "/")
    IN  IF h = <<>> THEN <<"/">> ELSE h

\* createHash: `/${hash}`
createHash(hash) == <<"/">> \o hash

\* new URL(`#${createHash(hash)}`, window.location.href).href: the base keeps
\* its origin and path, the fragment is replaced
ResolveHash(hash) == <<"#">> \o createHash(hash)

\* String.prototype.split(sep) for a one-character separator: the pieces
\* between the separators, one piece for a string without any
RECURSIVE SplitAcc(_, _, _)
SplitAcc(str, sep, piece) ==
    IF str = <<>> THEN <<piece>>
    ELSE IF Head(str) = sep THEN <<piece>> \o SplitAcc(Tail(str), sep, <<>>)
    ELSE SplitAcc(Tail(str), sep, Append(piece, Head(str)))

Split(str, sep) == SplitAcc(str, sep, <<>>)

\* \w of a regular expression, over the characters the model's strings are
\* made of: letters and digits are word characters, the punctuation is not
IsWordChar(c) == c \notin {"/", ":", "#", "?", "-", "=", "&"}

\* the longest run of word characters str starts with (\w+ is greedy)
RECURSIVE WordRun(_)
WordRun(str) ==
    IF str = <<>> \/ ~IsWordChar(Head(str)) THEN 0 ELSE 1 + WordRun(Tail(str))

\* pattern.replace(/:\w+/g, '([^/]+)') as the regular expression reads it: a
\* ':' followed by word characters becomes the group [^/]+, every other
\* character (none of the model's is special in a regular expression) stands
\* for itself
RECURSIVE patternRegex(_)
patternRegex(pattern) ==
    IF pattern = <<>> THEN <<>>
    ELSE IF Head(pattern) = ":" /\ WordRun(Tail(pattern)) > 0
    THEN <<"([^/]+)">>
         \o patternRegex(SubSeq(pattern, 2 + WordRun(Tail(pattern)), Len(pattern)))
    ELSE <<Head(pattern)>> \o patternRegex(Tail(pattern))

\* new RegExp('^' + regex + '$').test(str): the whole of str is read by regex
RECURSIVE RegexTest(_, _)
RegexTest(regex, str) ==
    IF regex = <<>> THEN str = <<>>
    ELSE IF Head(regex) = "([^/]+)"
    THEN \E k \in 1 .. Len(str) :
            /\ \A j \in 1 .. k : str[j] # "/"
            /\ RegexTest(Tail(regex), SubSeq(str, k + 1, Len(str)))
    ELSE /\ str # <<>>
         /\ Head(str) = Head(regex)
         /\ RegexTest(Tail(regex), Tail(str))

\* isRouteMatch (lines 54-77); NoStr is a null or undefined hash
isRouteMatch(pattern, hash) ==
    IF hash = NoStr THEN FALSE
    ELSE IF Len(Split(pattern, "/")) # Len(Split(hash, "/")) THEN FALSE
    ELSE RegexTest(patternRegex(pattern), hash)

\* Object.keys(map).reduce(...) of getRouteItem: acc after the keys of map
RECURSIVE Reduce(_, _, _)
Reduce(map, hash, acc) ==
    IF map = <<>> THEN acc
    ELSE Reduce(Tail(map), hash,
                IF isRouteMatch(Head(map).key, hash) THEN Head(map).value ELSE acc)

\* getRouteItem (lines 86-95); map is the object's [key, value] pairs in the
\* order Object.keys lists them, which for keys that are no integers is the
\* order they were supplied in
getRouteItem(map, hash) == Reduce(map, hash, Undef)

\* params[paramName] = value on an object kept as a set of [name, value]
\* bindings: a name has one binding, the last one written
Bind(params, name, value) ==
    {b \in params : b.name # name} \cup {[name |-> name, value |-> value]}

\* a value kept with its query string
keepQuery(paramValue) == paramValue

\* paramValue.split('?')[0] (line 120)
normalizedValue(paramValue) == Split(paramValue, "?")[1]

\* the loop of getParamsFromUrl (lines 110-125) from position i on
RECURSIVE ParamsFrom(_, _, _, _)
ParamsFrom(patternSegments, urlSegments, i, params) ==
    IF i > Len(patternSegments) THEN params
    ELSE ParamsFrom(patternSegments, urlSegments, i + 1,
                    IF patternSegments[i] # <<>> /\ Head(patternSegments[i]) = ":"
                    THEN Bind(params, Tail(patternSegments[i]),
                              normalizedValue(urlSegments[i]))
                    ELSE params)

\* getParamsFromUrl (lines 97-128); hash.split of a null or undefined hash
\* throws a TypeError
getParamsFromUrl(pattern, hash) ==
    LET patternSegments == Split(pattern, "/")
        urlSegments == Split(hash, "/")
    IN  IF hash = NoStr THEN "throw"
        ELSE IF Len(patternSegments) # Len(urlSegments) THEN {}
        ELSE ParamsFrom(patternSegments, urlSegments, 1, {})

\* an entry maker that never keeps the state it is given
entryWithoutState(url, state, index, k) ==
    [ kind |-> "entry", url |-> url, key |-> k, id |-> k, index |-> index,
      sameDocument |-> TRUE, state |-> EmptyObj, hash |-> <<"/">> ]

\* createHistoryEntry(url, state = {}, index = 0); k stands for the two
\* generateRandomId() results
createHistoryEntry(url, state, index, k) ==
    [ kind |-> "entry",
      url |-> url,
      key |-> k,
      id |-> k,
      index |-> index,
      sameDocument |-> TRUE,
      state |-> IF state = Undef THEN EmptyObj ELSE state,
      hash |-> getHash(url) ]

\* what reading past the end of the array, or a hole of it, yields
UndefinedEntry ==
    [ kind |-> "undefined", url |-> NoStr, key |-> 0, id |-> 0, index |-> -1,
      sameDocument |-> FALSE, state |-> Undef, hash |-> NoStr ]

\* the null that prevEntry yields at index 0
NullEntry ==
    [ kind |-> "null", url |-> NoStr, key |-> 0, id |-> 0, index |-> -1,
      sameDocument |-> FALSE, state |-> Undef, hash |-> NoStr ]

\* { ...undefined }: an object without any field of an entry
BareObject ==
    [ kind |-> "entry", url |-> NoStr, key |-> 0, id |-> 0, index |-> -1,
      sameDocument |-> FALSE, state |-> Undef, hash |-> NoStr ]

\* JS truthiness of what an entry expression yields
IsObject(e) == e.kind = "entry"

VARIABLES
    entries,        \* _entries: the store's entry list
    currentIndex,   \* _currentIndex
    currentURL,     \* _currentURL
    urlSync,        \* the internal URL-synchronising effect is still alive
    listening,      \* handleHashChange is registered on the window
    nextKey,        \* next fresh key/id
    handle,         \* per callback: "none", "active" or "cancelled" subscription
    previousCallEntry, \* per subscription: position of the entry object it was
                       \* last called with, -1 when that object left the list
    hist,           \* host: window.history's records [url, state]
    hostIndex,      \* host: position of the current record (0-based)
    pendingGo,      \* host: traversals queued by history.go/back/forward
    pendingEvt,     \* host: hashchange events not yet dispatched (newURL)
    op,             \* the last operation and how it ended
    hostCalls,      \* window.history calls made by the last operation
    calls,          \* per callback: its invocations during the last operation
    call,           \* a call of a helper of src/unnamed/part_002: its arguments
                    \* and, once it has returned, its result
    router          \* createHashRouter's closure: routerConfig, the onChange
                    \* wrapper's prevLocation, the callback of subscribe and
                    \* what the last operation called them with

vars == << entries, currentIndex, currentURL, urlSync, listening, nextKey,
           handle, previousCallEntry, hist, hostIndex, pendingGo, pendingEvt,
           op, hostCalls, calls, call, router >>

storeVars == << entries, currentIndex, currentURL >>
subVars == << handle, previousCallEntry >>
hostVars == << hist, hostIndex, pendingGo, pendingEvt >>

(***************************************************************************)
(* Computed signals (part_006 lines 38-44)                                 *)
(***************************************************************************)
\* ents[i] of the code: undefined outside the list
At(ents, i) == IF i >= 0 /\ i < Len(ents) THEN ents[i + 1] ELSE UndefinedEntry

\* currentEntry = computed(() => _entries.value[_currentIndex.value])
currentEntry == At(entries, currentIndex)

\* canGoBack = computed(() => _currentIndex.value > 0)
canGoBack == currentIndex > 0

\* canGoForward = computed(() => _currentIndex.value < _entries.value.length - 1)
\* a store that always claims a forward entry
canGoForwardAlways == TRUE

canGoForward == currentIndex < Len(entries) - 1

\* prevEntry = computed(() => index > 0 ? entries[index - 1] : null)
PrevOf(ents, i) == IF i > 0 THEN At(ents, i - 1) ELSE NullEntry

prevEntry == PrevOf(entries, currentIndex)

(***************************************************************************)
(* The host: window.location and window.history                           *)
(***************************************************************************)
\* window.location.href
locationHref == hist[hostIndex + 1].url

\* window.location.hash: "" without a fragment, else "#fragment"
locationHash == UrlHash(locationHref)

\* window.history.state
historyState == hist[hostIndex + 1].state

\* history.pushState(state, '', url): drop the records after the current
\* one, append the new record and make it current; no event is fired
HostPushState(hs, hi, state, url) ==
    Append(SubSeq(hs, 1, hi + 1), [url |-> url, state |-> state])

\* history.replaceState(state, '', url): overwrite the current record
HostReplaceState(hs, hi, state, url) ==
    [hs EXCEPT ![hi + 1] = [url |-> url, state |-> state]]

\* a window.history call as the operation's log keeps it
HostCall(fn, state, url, delta) ==
    [fn |-> fn, state |-> state, url |-> url, delta |-> delta]

(***************************************************************************)
(* Subscriptions (part_006 lines 184-224): each live subscription is an    *)
(* effect over currentEntry that calls back when the entry object differs  *)
(* from the one it was last called with.                                   *)
(***************************************************************************)
CallRec(ents, i) ==
    [entry |-> At(ents, i), prev |-> PrevOf(ents, i), hash |-> At(ents, i).hash]

\* the effect body, lines 202-211: callback(entry, prevEntry.value, entry.hash)
\* when previousCallEntry !== entry (reading entry.hash of undefined throws
\* before the comparison, and previousCallEntry stays)
EffectCalls(h, pc, ents, i) ==
    [c \in SubIds |->
        IF h[c] = "active" /\ IsObject(At(ents, i)) /\ pc[c] # i
        THEN <<CallRec(ents, i)>> ELSE <<>>]

EffectSeen(h, pc, ents, i) ==
    [c \in SubIds |->
        IF h[c] = "active" /\ IsObject(At(ents, i)) THEN i ELSE pc[c]]

NoCalls == [c \in SubIds |-> <<>>]

\* a live effect re-ran on a current entry that became undefined
EffectThrows(h, ents, i) ==
    /\ \E c \in SubIds : h[c] = "active"
    /\ IsObject(currentEntry)
    /\ ~IsObject(At(ents, i))

\* the internal effect, lines 329-335: align _currentURL with the current
\* entry when their hashes differ
SyncURL(alive, url, ents, i) ==
    IF alive /\ IsObject(At(ents, i)) /\ At(ents, i).url # NoStr
             /\ getHash(url) # getHash(At(ents, i).url)
    THEN At(ents, i).url ELSE url

\* no back() to return from
NoMark == [key |-> 0, state |-> Undef, entries |-> <<>>]

\* The last operation, as a caller or a test observes it: its name, its
\* arguments, how it ended, the index and length it started from; whether it
\* repeats the navigate call before it (again); and, for a back() called
\* where canGoBack holds and for the forward() that follows it at once, the
\* current entry and the list that back() started from (mark).
OpRec(name, hash, state, key, result) ==
    [name |-> name, hash |-> hash, state |-> state, key |-> key,
     result |-> result, preIndex |-> currentIndex, preLength |-> Len(entries),
     again |-> /\ name = "navigate" /\ op.name = "navigate"
               /\ op.hash = hash /\ op.state = state,
     mark |-> IF name = "back" /\ canGoBack /\ IsObject(currentEntry)
              THEN [key |-> currentEntry.key, state |-> currentEntry.state,
                    entries |-> entries]
              ELSE IF name = "forward" /\ op.name = "back" THEN op.mark
              ELSE NoMark]

(***************************************************************************)
(* The router's closure (src/src/core/hashRouter.ts lines 50-53) before    *)
(* create: routerConfig = null, nothing subscribed                         *)
(***************************************************************************)
\* no helper is being called
NoCall == [fn |-> "none", map |-> <<>>, hash |-> NoStr, result |-> Undef]

\* routerConfig = null
NoConfig == [homeUrl |-> NoStr, routeNames |-> <<>>]

\* config: routerConfig; prevLocation: the URL of the entry the wrapper of
\* create last passed to onChange (NoStr for null); onChange: the URLs its
\* invocations of the last operation carried; subscriber: the callback given
\* to subscribe ("none", "active", or "stale" when its navigation object was
\* replaced); subPrev: the prevLocation of its subscription; subCalls: its
\* invocations during the last operation; navigation: the navigation object
\* the router exports as its navigation property, hashNavigation: the one
\* its methods use (_hashNavigation), each named by the key of the entry it
\* was constructed with
RouterInit ==
    [ navigation |-> 1, hashNavigation |-> 1,
      config |-> NoConfig, prevLocation |-> NoStr, onChange |-> <<>>,
      subscriber |-> "none", subPrev |-> NoStr, subCalls |-> <<>> ]

(***************************************************************************)
(* Init: the state after createHashNavigation() (lines 15-44), in a        *)
(* document opened at one of InitUrls with a null history.state            *)
(***************************************************************************)
Init ==
    \E u \in InitUrls :
        /\ entries = <<createHistoryEntry(u, Undef, 0, 1)>>
        /\ currentIndex = 0
        /\ currentURL = u
        /\ urlSync = TRUE
        /\ listening = FALSE
        /\ nextKey = 2
        /\ handle = [c \in SubIds |-> "none"]
        /\ previousCallEntry = [c \in SubIds |-> -1]
        /\ hist = <<[url |-> u, state |-> Null]>>
        /\ hostIndex = 0
        /\ pendingGo = <<>>
        /\ pendingEvt = <<>>
        /\ op = [name |-> "init", hash |-> <<>>, state |-> Undef, key |-> 0,
                 result |-> "ok", preIndex |-> 0, preLength |-> 1,
                 again |-> FALSE, mark |-> NoMark]
        /\ hostCalls = <<>>
        /\ calls = NoCalls
        /\ router = RouterInit
        /\ call = NoCall

(***************************************************************************)
(* Signal writes.  An operation is a series of committed writes (a single  *)
(* assignment outside batch, or one batch); after each one the live        *)
(* effects re-run.  A write is [ents, idx, gone]: the list and index it    *)
(* leaves, and the positions whose former object is no longer there.       *)
(***************************************************************************)
Write(ents, idx, gone) == [ents |-> ents, idx |-> idx, gone |-> gone]

Gone(pc, g) == [c \in SubIds |-> IF pc[c] \in g THEN -1 ELSE pc[c]]

RECURSIVE RunEffects(_, _, _, _)
RunEffects(h, pc, cl, writes) ==
    IF writes = <<>> THEN [seen |-> pc, calls |-> cl]
    ELSE LET w == Head(writes)
             pc1 == Gone(pc, w.gone)
             now == EffectCalls(h, pc1, w.ents, w.idx)
         IN  RunEffects(h, EffectSeen(h, pc1, w.ents, w.idx),
                        [c \in SubIds |-> cl[c] \o now[c]], Tail(writes))

\* setEntry (lines 123-138): newEntries[entryIndex] = {...entry, ...entryPart};
\* writing past the end leaves holes before the new element
SetAt(ents, i, e) ==
    IF i < Len(ents) THEN [ents EXCEPT ![i + 1] = e]
    ELSE ents \o [j \in 1 .. (i - Len(ents)) |-> UndefinedEntry] \o <<e>>

\* {...entry} of setEntry: the fields of the entry, none for undefined
Spread(e) == IF IsObject(e) THEN e ELSE BareObject

\* every element of the list is an entry made by createHistoryEntry
Intact(ents) == \A j \in 1 .. Len(ents) : ents[j].kind = "entry" /\ ents[j].key # 0

\* the operation reloaded the document (history.go(0)): this program ended
Reloaded == op.result = "reload"

\* The effects of one store operation o: its writes, the value it assigns to
\* _currentURL (url), its window.history calls hc, the host it leaves
\* (hs, hi, pg) and the next fresh key nk.
ApplyQ(o, writes, url, hc, hs, hi, pg, pe, nk) ==
    LET ents == IF writes = <<>> THEN entries ELSE writes[Len(writes)].ents
        idx == IF writes = <<>> THEN currentIndex ELSE writes[Len(writes)].idx
        r == RunEffects(handle, previousCallEntry, NoCalls, writes)
        threw == \/ EffectThrows(handle, ents, idx)
                 \/ /\ urlSync /\ writes # <<>>
                    /\ IsObject(At(ents, idx)) /\ At(ents, idx).url = NoStr
    IN  /\ entries' = ents
        /\ currentIndex' = idx
        /\ currentURL' = SyncURL(urlSync, url, ents, idx)
        /\ previousCallEntry' = r.seen
        /\ calls' = r.calls
        /\ hostCalls' = hc
        /\ hist' = hs
        /\ hostIndex' = hi
        /\ pendingGo' = pg
        /\ nextKey' = nk
        /\ pendingEvt' = pe
        /\ op' = IF threw THEN [o EXCEPT !.result = "throw"] ELSE o
        /\ UNCHANGED << urlSync, listening, handle >>

Apply(o, writes, url, hc, hs, hi, pg, nk) ==
    ApplyQ(o, writes, url, hc, hs, hi, pg, pendingEvt, nk)

\* an operation that threw before it changed or called anything
Throw(o) ==
    /\ op' = [o EXCEPT !.result = "throw"]
    /\ hostCalls' = <<>>
    /\ calls' = NoCalls
    /\ UNCHANGED << storeVars, subVars, hostVars, urlSync, listening, nextKey >>

(***************************************************************************)
(* navigate (lines 227-266)                                                *)
(***************************************************************************)
\* a navigate that forgets to drop the forward entries
keepForward(ents, i) == ents

\* newEntries = [..._entries.value], spliced after the current index when
\* that is not the last one (lines 241-246)
spliceForward(ents, i) ==
    IF i < Len(ents) - 1 THEN SubSeq(ents, 1, i + 1) ELSE ents

NavigateAs(name, hash, state) ==
    LET o == OpRec(name, hash, state, 0, "noop")
        fullUrl == ResolveHash(hash)
    IN  IF ~IsObject(currentEntry)
        THEN \* currentEntry.value.hash of undefined: TypeError
             Throw(o)
        ELSE IF currentEntry.hash # hash
        THEN LET destination ==
                     createHistoryEntry(fullUrl, state, Len(entries), nextKey)
                 pushed == IF Truthy(state) THEN state ELSE Null
                 newEntries == Append(spliceForward(entries, currentIndex),
                                      destination)
             IN  Apply([o EXCEPT !.result = "pushed"],
                       <<Write(newEntries, Len(newEntries) - 1,
                               (currentIndex + 1) .. Len(entries))>>,
                       fullUrl,
                       <<HostCall("pushState", pushed, fullUrl, 0)>>,
                       HostPushState(hist, hostIndex, pushed, fullUrl),
                       hostIndex + 1, pendingGo, nextKey + 1)
        ELSE IF Truthy(state)
                /\ JsonStringify(currentEntry.state) # JsonStringify(state)
        THEN \* replaceHistoryEntry(fullUrl, state)
             Apply([o EXCEPT !.result = "replaced"],
                   <<Write(SetAt(entries, currentIndex,
                                 [currentEntry EXCEPT !.state = state]),
                           currentIndex, {currentIndex})>>,
                   currentURL,
                   <<HostCall("replaceState", state, fullUrl, 0)>>,
                   HostReplaceState(hist, hostIndex, state, fullUrl),
                   hostIndex, pendingGo, nextKey)
        ELSE Apply(o, <<>>, currentURL, <<>>, hist, hostIndex, pendingGo, nextKey)

Navigate(hash, state) == NavigateAs("navigate", hash, state)

(***************************************************************************)
(* traverseTo, back, goToPrev, forward (lines 268-326)                     *)
(***************************************************************************)
\* a lookup that falls back to the first entry when no entry has the key
findKeyOrFirst(ents, k) ==
    IF \E j \in 1 .. Len(ents) : ents[j].key = k
    THEN (CHOOSE j \in 1 .. Len(ents) :
             /\ ents[j].key = k
             /\ \A m \in 1 .. (j - 1) : ents[m].key # k) - 1
    ELSE 0

\* Array.prototype.findIndex over the keys: first position, or -1
FindKey(ents, k) ==
    IF \E j \in 1 .. Len(ents) : ents[j].key = k
    THEN (CHOOSE j \in 1 .. Len(ents) :
             /\ ents[j].key = k
             /\ \A m \in 1 .. (j - 1) : ents[m].key # k) - 1
    ELSE -1

\* Array.prototype.findIndex over the urls: first position, or -1
FindUrl(ents, u) ==
    IF \E j \in 1 .. Len(ents) : ents[j].url = u
    THEN (CHOOSE j \in 1 .. Len(ents) :
             /\ ents[j].url = u
             /\ \A m \in 1 .. (j - 1) : ents[m].url # u) - 1
    ELSE -1

\* updateNavigationState(newCurrentIndex, newUrl), lines 110-121
NavUrl(newUrl) == IF newUrl # NoStr THEN newUrl ELSE currentURL

\* a traverseTo that subtracts the wrong way round
deltaReversed(entryIndex, index) == index - entryIndex

\* const delta = entryIndex - _currentIndex.value (line 276)
Delta(entryIndex, index) == entryIndex - index

TraverseTo(key, state) ==
    LET o == OpRec("traverseTo", <<>>, state, key, "null")
        entryIndex == FindKey(entries, key)
        destination == At(entries, entryIndex)
        delta == Delta(entryIndex, currentIndex)
        withState == Truthy(state)
        ents1 == IF withState
                 THEN SetAt(entries, entryIndex, [destination EXCEPT !.state = state])
                 ELSE entries
        hist1 == IF withState
                 THEN HostReplaceState(hist, hostIndex, state, destination.url)
                 ELSE hist
        replaceCall == IF withState
                       THEN <<HostCall("replaceState", state, destination.url, 0)>>
                       ELSE <<>>
        stateWrite == IF withState
                      THEN <<Write(ents1, currentIndex, {entryIndex})>>
                      ELSE <<>>
    IN  IF entryIndex = -1
        THEN Apply(o, <<>>, currentURL, <<>>, hist, hostIndex, pendingGo, nextKey)
        ELSE Apply([o EXCEPT !.result = IF delta = 0 THEN "reload" ELSE "ok"],
                   stateWrite \o <<Write(ents1, entryIndex, {})>>,
                   NavUrl(destination.url),
                   replaceCall \o <<HostCall("go", Undef, NoStr, delta)>>,
                   hist1, hostIndex,
                   IF delta = 0 THEN pendingGo ELSE Append(pendingGo, delta),
                   nextKey)

Back ==
    LET o == OpRec("back", <<>>, Undef, 0, "null")
        prev == prevEntry
    IN  IF ~IsObject(prev)
        THEN Apply(o, <<>>, currentURL, <<HostCall("back", Undef, NoStr, -1)>>,
                   hist, hostIndex, Append(pendingGo, -1), nextKey)
        ELSE \* updateNavigationState(prevEntry.value.index, prevEntry.value.url)
             Apply([o EXCEPT !.result = "ok"],
                   <<Write(entries, prev.index, {})>>,
                   NavUrl(prev.url),
                   <<HostCall("back", Undef, NoStr, -1)>>,
                   hist, hostIndex, Append(pendingGo, -1), nextKey)

Forward ==
    LET o == OpRec("forward", <<>>, Undef, 0, "null")
        nextIndex == currentIndex + 1
        destination == At(entries, nextIndex)
    IN  IF ~canGoForward
        THEN Apply(o, <<>>, currentURL, <<HostCall("forward", Undef, NoStr, 1)>>,
                   hist, hostIndex, Append(pendingGo, 1), nextKey)
        ELSE Apply([o EXCEPT !.result = "ok"],
                   <<Write(entries, nextIndex, {})>>,
                   NavUrl(destination.url),
                   <<HostCall("forward", Undef, NoStr, 1)>>,
                   hist, hostIndex, Append(pendingGo, 1), nextKey)

GoToPrev ==
    IF ~canGoBack \/ ~IsObject(prevEntry)
    THEN Apply(OpRec("goToPrev", <<>>, Undef, 0, "null"), <<>>, currentURL,
               <<HostCall("back", Undef, NoStr, -1)>>,
               hist, hostIndex, Append(pendingGo, -1), nextKey)
    ELSE NavigateAs("goToPrev", prevEntry.hash, prevEntry.state)

(***************************************************************************)
(* updateCurrentEntry, updateCurrentEntryHash (lines 150-176)              *)
(***************************************************************************)
\* the URL that history.replaceState resolves window.location.hash to: the
\* document's own URL
ResolveRef(ref) == ref

UpdateCurrentEntry(state) ==
    Apply(OpRec("updateCurrentEntry", <<>>, state, 0, "ok"),
          <<Write(SetAt(entries, currentIndex,
                        [Spread(currentEntry) EXCEPT !.state = state]),
                  currentIndex, {currentIndex})>>,
          currentURL,
          <<HostCall("replaceState", state, locationHash, 0)>>,
          HostReplaceState(hist, hostIndex, state, ResolveRef(locationHash)),
          hostIndex, pendingGo, nextKey)

UpdateCurrentEntryHash(hash, newState) ==
    LET newUrl == ResolveHash(hash)
        part == [Spread(currentEntry) EXCEPT !.url = newUrl, !.hash = getHash(newUrl)]
        updated == IF Truthy(newState) THEN [part EXCEPT !.state = newState] ELSE part
    IN  Apply(OpRec("updateCurrentEntryHash", hash, newState, 0, "ok"),
              <<Write(SetAt(entries, currentIndex, updated),
                      currentIndex, {currentIndex})>>,
              currentURL,
              <<HostCall("replaceState", newState, newUrl, 0)>>,
              HostReplaceState(hist, hostIndex, newState, newUrl),
              hostIndex, pendingGo, nextKey)

(***************************************************************************)
(* subscribe and its cancellation function (lines 184-224)                 *)
(***************************************************************************)
Subscribe(c) ==
    LET o == OpRec("subscribe", <<>>, Undef, c, "ok")
    IN  /\ handle[c] # "active"
        /\ IF ~IsObject(currentEntry)
           THEN \* current.hash of undefined: TypeError before the callback runs
                Throw(o)
           ELSE /\ op' = o
                /\ calls' = [NoCalls EXCEPT ![c] = <<CallRec(entries, currentIndex)>>]
                /\ handle' = [handle EXCEPT ![c] = "active"]
                /\ previousCallEntry' = [previousCallEntry EXCEPT ![c] = currentIndex]
                /\ hostCalls' = <<>>
                /\ UNCHANGED << storeVars, hostVars, urlSync, listening, nextKey >>

\* a cancellation function that forgets to dispose its effect
notDisposed(h, c) == h

\* unsubscribe() of completeUnsubscribe: the effect of subscription c is
\* disposed, the others stay
Disposed(h, c) == [h EXCEPT ![c] = "cancelled"]

\* completeUnsubscribe: dispose the effect, drop the handle from the set
Unsubscribe(c) ==
    /\ handle[c] \in {"active", "cancelled"}
    /\ op' = OpRec("unsubscribe", <<>>, Undef, c,
                   IF handle[c] = "active" THEN "ok" ELSE "noop")
    /\ handle' = Disposed(handle, c)
    /\ previousCallEntry' = [previousCallEntry EXCEPT ![c] = -1]
    /\ calls' = NoCalls
    /\ hostCalls' = <<>>
    /\ UNCHANGED << storeVars, hostVars, urlSync, listening, nextKey >>

(***************************************************************************)
(* create, destroy (lines 47-58, 337-360)                                  *)
(***************************************************************************)
\* a create that adds the location's entry to the list it finds
appendFromLocation(k) ==
    Append(entries, createHistoryEntry(locationHref, historyState, 0, k))

\* initializeFromLocation (lines 47-58): the list that create() installs
initializeFromLocation(k) ==
    <<createHistoryEntry(locationHref, historyState, 0, k)>>

\* initializeFromLocation, then addEventListener('hashchange', ...)
Create ==
    LET ents == initializeFromLocation(nextKey)
        initialEntry == ents[Len(ents)]
        r == RunEffects(handle, previousCallEntry, NoCalls,
                        <<Write(ents, 0, 0 .. Len(entries))>>)
    IN  /\ entries' = ents
        /\ currentIndex' = 0
        /\ currentURL' = initialEntry.url
        /\ listening' = TRUE
        /\ nextKey' = nextKey + 1
        /\ previousCallEntry' = r.seen
        /\ calls' = r.calls
        /\ op' = OpRec("create", <<>>, Undef, 0, "ok")
        /\ hostCalls' = <<>>
        /\ UNCHANGED << hostVars, urlSync, handle >>

\* a destroy that resets the store without cancelling the subscriptions
cancelNone(h) == h

\* _subscriptions.forEach((unsub) => unsub()); _subscriptions.clear()
cancelAll(h) == [c \in SubIds |-> IF h[c] = "active" THEN "cancelled" ELSE h[c]]

\* removeEventListener, cancel every subscription, reset to
\* createInitialState() in one batch, dispose the internal effect
Destroy ==
    LET h == cancelAll(handle)
        newInitialState == createHistoryEntry(locationHref, Undef, 0, nextKey)
        r == RunEffects(h, previousCallEntry, NoCalls,
                        <<Write(<<newInitialState>>, 0, 0 .. Len(entries))>>)
    IN  /\ listening' = FALSE
        /\ handle' = h
        /\ previousCallEntry' =
               [c \in SubIds |-> IF h[c] = "active" THEN r.seen[c] ELSE -1]
        /\ entries' = <<newInitialState>>
        /\ currentIndex' = 0
        /\ currentURL' = locationHref
        /\ urlSync' = FALSE
        /\ nextKey' = nextKey + 1
        /\ calls' = r.calls
        /\ op' = OpRec("destroy", <<>>, Undef, 0, "ok")
        /\ hostCalls' = <<>>
        /\ UNCHANGED hostVars

(***************************************************************************)
(* The host's own steps                                                    *)
(***************************************************************************)
HostStep(name, hs, hi, pg, pe) ==
    /\ hist' = hs
    /\ hostIndex' = hi
    /\ pendingGo' = pg
    /\ pendingEvt' = pe
    /\ op' = OpRec(name, <<>>, Undef, 0, "ok")
    /\ hostCalls' = <<>>
    /\ calls' = NoCalls
    /\ UNCHANGED << storeVars, subVars, urlSync, listening, nextKey >>

\* the user presses the browser's back (-1) or forward (+1) button
NativeTraverse(delta) ==
    HostStep("native", hist, hostIndex, Append(pendingGo, delta), pendingEvt)

\* the user edits the fragment in the address bar: a new record is pushed at
\* once and a hashchange event is queued
ManualEdit(u) ==
    /\ u # locationHref
    /\ HostStep("edit", HostPushState(hist, hostIndex, Null, u), hostIndex + 1,
                pendingGo, Append(pendingEvt, u))

\* the host performs the oldest queued traversal: outside the stack nothing
\* happens; otherwise the record becomes current and, when the URL's fragment
\* changed, a hashchange event is queued
HostTraverse ==
    /\ pendingGo # <<>>
    /\ LET target == hostIndex + Head(pendingGo)
       IN  IF target < 0 \/ target >= Len(hist)
           THEN HostStep("traverse", hist, hostIndex, Tail(pendingGo), pendingEvt)
           ELSE HostStep("traverse", hist, target, Tail(pendingGo),
                         IF hist[target + 1].url # locationHref
                         THEN Append(pendingEvt, hist[target + 1].url)
                         ELSE pendingEvt)

(***************************************************************************)
(* handleHashChange (lines 61-107), run when the host dispatches the       *)
(* oldest queued hashchange event to a registered listener                 *)
(***************************************************************************)
\* a handler that takes no notification for a repetition
neverCurrent(newUrl) == FALSE

\* newUrl === currentEntry.value?.url (line 66)
isCurrentUrl(newUrl) == IsObject(currentEntry) /\ newUrl = currentEntry.url

\* an update that leaves the entry's state as it was
keepState(entry, state) == entry

\* { ...existingEntry, state } (lines 82-85)
withHostState(entry, state) == [entry EXCEPT !.state = state]

handleHashChange(newUrl) ==
    LET o == OpRec("hashchange", <<>>, historyState, 0, "ignored")
        state == historyState
        existingEntryIndex == FindUrl(entries, newUrl)
        existingEntry == At(entries, existingEntryIndex)
        pe == Tail(pendingEvt)
    IN  IF isCurrentUrl(newUrl)
        THEN ApplyQ(o, <<>>, currentURL, <<>>, hist, hostIndex, pendingGo, pe, nextKey)
        ELSE IF existingEntryIndex >= 0
        THEN ApplyQ([o EXCEPT !.result = "known"],
                   <<Write(entries, existingEntryIndex, {})>>
                   \o (IF JsonStringify(existingEntry.state) # JsonStringify(state)
                       THEN <<Write(SetAt(entries, existingEntryIndex,
                                          withHostState(existingEntry, state)),
                                    existingEntryIndex, {existingEntryIndex})>>
                       ELSE <<>>),
                   currentURL, <<>>, hist, hostIndex, pendingGo, pe, nextKey)
        ELSE LET newEntry == createHistoryEntry(newUrl, state, Len(entries), nextKey)
                 kept == IF currentIndex < Len(entries) - 1
                         THEN SubSeq(entries, 1, currentIndex + 1)
                         ELSE entries
                 newEntries == Append(kept, newEntry)
             IN  ApplyQ([o EXCEPT !.result = "unknown"],
                        <<Write(newEntries, Len(newEntries) - 1,
                                (currentIndex + 1) .. Len(entries))>>,
                        currentURL, <<>>, hist, hostIndex, pendingGo, pe, nextKey + 1)

DeliverHashChange ==
    /\ pendingEvt # <<>>
    /\ IF listening
       THEN handleHashChange(Head(pendingEvt))
       ELSE HostStep("dropped", hist, hostIndex, pendingGo, Tail(pendingEvt))

(***************************************************************************)
(* The earlier createHashNavigation (src/src/core/hashNavigation.ts with   *)
(* src/src/helpers.ts): the same three signals and the URL-synchronising   *)
(* effect, no subscribe; back and forward take options; forward returns    *)
(* at once where nothing lies ahead.  No 'navigate' listener is added, so  *)
(* dispatchNavigateEvent calls nobody.                                     *)
(***************************************************************************)
\* createHistoryEntry of src/src/helpers.ts: the state has no default; the
\* entry has two function properties, which a spread copies as they are:
\* getHash, a closure over the url parameter (its result is the field hash),
\* and getState, bound to this very object, whose state property is never
\* assigned again (its result is the field getState)
coreHistoryEntry(url, state, index, k) ==
    [ kind |-> "entry",
      url |-> url,
      key |-> k,
      id |-> k,
      index |-> index,
      sameDocument |-> TRUE,
      state |-> state,
      hash |-> getHash(url),
      getState |-> state ]

\* the state after the module's createHashNavigation() (lines 21-26) in a
\* document opened at u
CoreAt(u) ==
    /\ entries = <<coreHistoryEntry(u, Undef, 0, 1)>>
    /\ currentIndex = 0
    /\ currentURL = u
    /\ urlSync = TRUE
    /\ listening = FALSE
    /\ nextKey = 2
    /\ handle = [c \in SubIds |-> "none"]
    /\ previousCallEntry = [c \in SubIds |-> -1]
    /\ hist = <<[url |-> u, state |-> Null]>>
    /\ hostIndex = 0
    /\ pendingGo = <<>>
    /\ pendingEvt = <<>>
    /\ op = [name |-> "init", hash |-> <<>>, state |-> Undef, key |-> 0,
             result |-> "ok", preIndex |-> 0, preLength |-> 1,
             again |-> FALSE, mark |-> NoMark]
    /\ hostCalls = <<>>
    /\ calls = NoCalls
    /\ router = RouterInit

\* the same in a document opened at one of InitUrls, no helper being called
CoreInit == \E u \in InitUrls : CoreAt(u) /\ call = NoCall

\* create (lines 405-409): initializeFromLocation (lines 36-49) makes the
\* entry from _currentURL and window.history.state ?? currentEntry.getState()
CoreCreate ==
    LET o == OpRec("create", <<>>, Undef, 0, "ok")
    IN  IF historyState \in {Null, Undef} /\ ~IsObject(currentEntry)
        THEN Throw(o)
        ELSE LET state == IF historyState \in {Null, Undef}
                          THEN currentEntry.getState ELSE historyState
                 initialEntry == coreHistoryEntry(currentURL, state, 0, nextKey)
             IN  /\ entries' = <<initialEntry>>
                 /\ currentIndex' = 0
                 /\ currentURL' = initialEntry.url
                 /\ listening' = TRUE
                 /\ nextKey' = nextKey + 1
                 /\ op' = o
                 /\ hostCalls' = <<>>
                 /\ calls' = NoCalls
                 /\ UNCHANGED << subVars, hostVars, urlSync >>

\* navigate (lines 222-272)
CoreNavigate(hash, state) ==
    LET o == OpRec("navigate", hash, state, 0, "noop")
        fullUrl == ResolveHash(hash)
    IN  IF ~IsObject(currentEntry)
        THEN Throw(o)
        ELSE IF currentEntry.hash # hash
        THEN LET destination ==
                     coreHistoryEntry(fullUrl, state, Len(entries), nextKey)
                 pushed == IF Truthy(state) THEN state ELSE Null
                 newEntries == Append(spliceForward(entries, currentIndex),
                                      destination)
             IN  Apply([o EXCEPT !.result = "pushed"],
                       <<Write(newEntries, Len(newEntries) - 1,
                               (currentIndex + 1) .. Len(entries))>>,
                       fullUrl,
                       <<HostCall("pushState", pushed, fullUrl, 0)>>,
                       HostPushState(hist, hostIndex, pushed, fullUrl),
                       hostIndex + 1, pendingGo, nextKey + 1)
        ELSE IF Truthy(state)
                /\ JsonStringify(currentEntry.state) # JsonStringify(state)
        THEN Apply([o EXCEPT !.result = "replaced"],
                   <<Write(SetAt(entries, currentIndex,
                                 [currentEntry EXCEPT !.state = state]),
                           currentIndex, {currentIndex})>>,
                   currentURL,
                   <<HostCall("replaceState", state, fullUrl, 0)>>,
                   HostReplaceState(hist, hostIndex, state, fullUrl),
                   hostIndex, pendingGo, nextKey)
        ELSE Apply(o, <<>>, currentURL, <<>>, hist, hostIndex, pendingGo, nextKey)

\* the part that back and forward share (lines 309-322, 330-344): an
\* optional replaceState and updateEntryState of the destination, the host
\* call fn, then updateNavigationState(destination, index, destination.url)
CoreStepTo(o, index, state, fn, delta) ==
    LET destination == At(entries, index)
        withState == Truthy(state)
        ents1 == IF withState
                 THEN SetAt(entries, index, [destination EXCEPT !.state = state])
                 ELSE entries
    IN  Apply([o EXCEPT !.result = "ok"],
              (IF withState THEN <<Write(ents1, currentIndex, {index})>> ELSE <<>>)
                  \o <<Write(ents1, index, {})>>,
              NavUrl(destination.url),
              (IF withState
               THEN <<HostCall("replaceState", state, destination.url, 0)>>
               ELSE <<>>) \o <<HostCall(fn, Undef, NoStr, delta)>>,
              IF withState
              THEN HostReplaceState(hist, hostIndex, state, destination.url)
              ELSE hist,
              hostIndex, Append(pendingGo, delta), nextKey)

\* back (lines 302-323)
CoreBack(state) ==
    LET o == OpRec("back", <<>>, state, 0, "null")
    IN  IF ~canGoBack
        THEN Apply(o, <<>>, currentURL, <<HostCall("back", Undef, NoStr, -1)>>,
                   hist, hostIndex, Append(pendingGo, -1), nextKey)
        ELSE CoreStepTo(o, currentIndex - 1, state, "back", -1)

\* a forward that behaves as the forward of the later createHashNavigation
forwardCallingHost(state) == Forward

\* forward (lines 325-345)
CoreForward(state) ==
    LET o == OpRec("forward", <<>>, state, 0, "null")
    IN  IF ~canGoForward
        THEN Apply(o, <<>>, currentURL, <<>>, hist, hostIndex, pendingGo, nextKey)
        ELSE CoreStepTo(o, currentIndex + 1, state, "forward", 1)

\* updateCurrentEntryHash (lines 213-218): updateEntryUrl (lines 193-211)
\* stores {...entry, url: newUrl} at the current index; no window.history call
CoreUpdateCurrentEntryHash(hash) ==
    LET newUrl == ResolveHash(hash)
        updatedEntry == [Spread(currentEntry) EXCEPT !.url = newUrl]
    IN  Apply(OpRec("updateCurrentEntryHash", hash, Undef, 0, "ok"),
              <<Write(SetAt(entries, currentIndex, updatedEntry),
                      currentIndex, {currentIndex})>>,
              currentURL, <<>>, hist, hostIndex, pendingGo, nextKey)

\* handleHashChange (lines 98-144)
coreHandleHashChange(newUrl) ==
    LET o == OpRec("hashchange", <<>>, historyState, 0, "known")
        state == historyState
        existingEntryIndex == FindUrl(entries, newUrl)
        existingEntry == At(entries, existingEntryIndex)
        pe == Tail(pendingEvt)
    IN  IF existingEntryIndex >= 0
        THEN ApplyQ(o,
                   <<Write(entries, existingEntryIndex, {})>>
                   \o (IF JsonStringify(existingEntry.state) # JsonStringify(state)
                       THEN <<Write(SetAt(entries, existingEntryIndex,
                                          [existingEntry EXCEPT !.state = state]),
                                    existingEntryIndex, {existingEntryIndex})>>
                       ELSE <<>>),
                   currentURL, <<>>, hist, hostIndex, pendingGo, pe, nextKey)
        ELSE LET newEntry == coreHistoryEntry(newUrl, state, Len(entries), nextKey)
                 newEntries == Append(spliceForward(entries, currentIndex), newEntry)
             IN  ApplyQ([o EXCEPT !.result = "unknown"],
                        <<Write(newEntries, Len(newEntries) - 1,
                                (currentIndex + 1) .. Len(entries))>>,
                        currentURL, <<>>, hist, hostIndex, pendingGo, pe, nextKey + 1)

\* window.location.hash = h: the URL with fragment h; when it differs from the
\* document's URL the host pushes a record without state for it and queues a
\* hashchange event, otherwise nothing happens
AssignedUrl(h) == <<"#">> \o h

\* reload (lines 347-373): the destination entry it makes is only handed to
\* the result and never stored
CoreReload(state) ==
    LET o == OpRec("reload", <<>>, state, 0, "ok")
        currentEntryValue == currentEntry
        withState == state # Undef
        hist1 == IF withState
                 THEN HostReplaceState(hist, hostIndex, state, currentEntryValue.url)
                 ELSE hist
        assigned == AssignedUrl(getHash(currentEntryValue.url))
        moved == assigned # hist1[hostIndex + 1].url
    IN  IF ~IsObject(currentEntryValue)
        THEN Throw(o)
        ELSE ApplyQ(o,
                    IF withState
                    THEN <<Write(SetAt(entries, currentIndex,
                                       [currentEntryValue EXCEPT !.state = state]),
                                 currentIndex, {currentIndex})>>
                    ELSE <<>>,
                    currentURL,
                    (IF withState
                     THEN <<HostCall("replaceState", state, currentEntryValue.url, 0)>>
                     ELSE <<>>)
                        \o <<HostCall("location.hash", Undef, assigned, 0)>>,
                    IF moved THEN HostPushState(hist1, hostIndex, Null, assigned)
                    ELSE hist1,
                    IF moved THEN hostIndex + 1 ELSE hostIndex,
                    pendingGo,
                    IF moved THEN Append(pendingEvt, assigned) ELSE pendingEvt,
                    nextKey)

CoreDeliverHashChange ==
    /\ pendingEvt # <<>>
    /\ IF listening
       THEN coreHandleHashChange(Head(pendingEvt))
       ELSE HostStep("dropped", hist, hostIndex, pendingGo, Tail(pendingEvt))

(***************************************************************************)
(* The router (src/src/core/hashRouter.ts lines 1-207), built on the       *)
(* earlier createHashNavigation.  The store variables are those of the     *)
(* navigation object the router currently uses: the one made when the      *)
(* router is constructed, then the one that create makes.  Neither has had *)
(* its own create() called, so neither listens to hashchange.              *)
(***************************************************************************)
\* the configurations an application passes to create: a home route among
\* static and ':name' routes, a home route that leaves "a" out, no home route
Configs ==
    { [homeUrl |-> <<"h">>,
       routeNames |-> << <<"h">>, <<"a">>, <<"p", "/", ":", "i">> >>],
      [homeUrl |-> <<"h">>, routeNames |-> << <<"h">>, <<"b">> >>],
      [homeUrl |-> <<>>, routeNames |-> << <<"b">> >>] }

\* hash.startsWith('#') ? hash.substring(1) : hash
StripSharp(hash) == IF hash # <<>> /\ Head(hash) = "#" THEN Tail(hash) ELSE hash

\* Array.prototype.includes on a list of strings
Includes(list, x) == \E j \in 1 .. Len(list) : list[j] = x

\* checkExistPage (lines 66-73)
checkExistPage(routerConfig, hash) ==
    IF routerConfig = NoConfig THEN FALSE
    ELSE Includes(routerConfig.routeNames, StripSharp(hash))

\* a wrapper that passes every entry on
anyLocation(prevLocation, entry) == TRUE

\* the wrapper's guard (line 121): !prevLocation || prevLocation.url !== entry.url
differentLocation(prevLocation, entry) ==
    prevLocation = NoStr \/ prevLocation # entry.url

\* the logs of a new operation
Quiet(r) == [r EXCEPT !.onChange = <<>>, !.subCalls = <<>>]

\* the callback that create subscribes (lines 115-129), called with entry
Wrapper(r, entry) ==
    IF differentLocation(r.prevLocation, entry)
    THEN [r EXCEPT !.onChange = Append(@, entry.url), !.prevLocation = entry.url]
    ELSE r

\* handleNavigate of the callback given to subscribe (lines 23-29): the event
\* has no entry property, so the current entry is passed, with prevLocation
\* and nothing else
Listener(r, entry) ==
    IF r.subscriber = "active"
    THEN [r EXCEPT !.subCalls = Append(@, [url |-> entry.url, prev |-> r.subPrev,
                                            status |-> Undef]),
                   !.subPrev = entry.url]
    ELSE r

\* dispatchNavigateEvent (src/src/core/hashNavigation.ts lines 50-96): the
\* listeners of the navigation object in the order they were added; the
\* wrapper of create is the first listener of the object that create made
Dispatch(r, entry) ==
    Listener(IF r.config # NoConfig THEN Wrapper(r, entry) ELSE r, entry)

\* A navigation object as a value, for the router's operations that call
\* several of its methods: the store, the host it writes to, the next key,
\* the window.history calls made and the entries its navigate events carried
NavOf(ents, idx, url, hs, hi, pe, k) ==
    [ entries |-> ents, currentIndex |-> idx, currentURL |-> url, hist |-> hs,
      hostIndex |-> hi, pendingEvt |-> pe, nextKey |-> k, hostCalls |-> <<>>,
      events |-> <<>>, result |-> "noop" ]

\* navigate of hashNavigation.ts (lines 222-274) on a navigation value
navigateOn(n, hash, state) ==
    LET cur == n.entries[n.currentIndex + 1]
        fullUrl == ResolveHash(hash)
        pushed == IF Truthy(state) THEN state ELSE Null
        destination == coreHistoryEntry(fullUrl, state, Len(n.entries), n.nextKey)
        newEntries == Append(spliceForward(n.entries, n.currentIndex), destination)
    IN  IF cur.hash # hash
        THEN [n EXCEPT !.entries = newEntries,
                       !.currentIndex = Len(newEntries) - 1,
                       !.currentURL = fullUrl,
                       !.hist = HostPushState(n.hist, n.hostIndex, pushed, fullUrl),
                       !.hostIndex = n.hostIndex + 1,
                       !.nextKey = n.nextKey + 1,
                       !.hostCalls = Append(@, HostCall("pushState", pushed, fullUrl, 0)),
                       !.events = Append(@, destination),
                       !.result = "pushed"]
        ELSE IF Truthy(state) /\ JsonStringify(cur.state) # JsonStringify(state)
        THEN [n EXCEPT !.entries = SetAt(n.entries, n.currentIndex,
                                         [cur EXCEPT !.state = state]),
                       !.hist = HostReplaceState(n.hist, n.hostIndex, state, fullUrl),
                       !.hostCalls = Append(@, HostCall("replaceState", state, fullUrl, 0)),
                       !.result = "replaced"]
        ELSE n

\* updateCurrentEntry of hashNavigation.ts (lines 375-383) on a navigation
\* value; state is options.state
updateCurrentEntryOn(n, state) ==
    LET cur == n.entries[n.currentIndex + 1]
        newState == IF Truthy(state) THEN state ELSE Null
        here == n.hist[n.hostIndex + 1].url
    IN  [n EXCEPT !.entries = SetAt(n.entries, n.currentIndex,
                                    [cur EXCEPT !.state = newState]),
                  !.hist = HostReplaceState(n.hist, n.hostIndex, newState, here),
                  !.hostCalls = Append(@, HostCall("replaceState", newState,
                                                   UrlHash(here), 0))]

\* the state field of a state value used as the options object: none of the
\* state values has one
OptionsState(s) == Undef

\* replaceState (lines 79-96) of a router with closure r on navigation n:
\* [n, r] afterwards
replaceStateOn(n, r, hash, state) ==
    LET currentEntryValue == n.entries[n.currentIndex + 1]
        n1 == IF Truthy(state) THEN updateCurrentEntryOn(n, OptionsState(state))
              ELSE n
        n2 == IF hash # <<>> /\ hash # currentEntryValue.hash
              THEN navigateOn(n1, hash, IF Truthy(state) THEN state
                                        ELSE currentEntryValue.getState)
              ELSE n1
        r2 == IF Len(n2.events) > Len(n1.events)
              THEN Dispatch(r, n2.events[Len(n2.events)]) ELSE r
    IN  [n |-> n2, r |-> r2]

\* the store, the host and the closure become what operation o left
Commit(o, n, r) ==
    /\ entries' = n.entries
    /\ currentIndex' = n.currentIndex
    /\ currentURL' = SyncURL(urlSync, n.currentURL, n.entries, n.currentIndex)
    /\ hist' = n.hist
    /\ hostIndex' = n.hostIndex
    /\ pendingEvt' = n.pendingEvt
    /\ nextKey' = n.nextKey
    /\ hostCalls' = n.hostCalls
    /\ op' = o
    /\ calls' = NoCalls
    /\ router' = r
    /\ UNCHANGED << subVars, pendingGo, urlSync, listening >>

\* the navigation object in use
ThisNav == NavOf(entries, currentIndex, currentURL, hist, hostIndex, pendingEvt, nextKey)

\* a create that never sets the fragment
neverSetsHome(homeUrl) == FALSE

\* the condition of line 107: !window.location.hash && initConfig.homeUrl
setsHome(homeUrl) == locationHash = <<>> /\ homeUrl # <<>>

\* create (lines 103-143)
RouterCreate(initConfig) ==
    LET homeUrl == initConfig.homeUrl
        assign == setsHome(homeUrl)
        assigned == AssignedUrl(createHash(homeUrl))
        hist1 == IF assign THEN HostPushState(hist, hostIndex, Null, assigned) ELSE hist
        hostIndex1 == IF assign THEN hostIndex + 1 ELSE hostIndex
        href == hist1[hostIndex1 + 1].url
        first == coreHistoryEntry(href, Undef, 0, nextKey)
        n1 == NavOf(<<first>>, 0, href, hist1, hostIndex1,
                    IF assign THEN Append(pendingEvt, assigned) ELSE pendingEvt,
                    nextKey + 1)
        n2 == [n1 EXCEPT !.hostCalls =
                  IF assign THEN <<HostCall("location.hash", Undef, assigned, 0)>>
                  ELSE <<>>]
        r1 == [Quiet(router) EXCEPT
                  !.config = initConfig, !.prevLocation = NoStr,
                  !.hashNavigation = first.key,
                  !.subscriber = IF @ = "active" THEN "stale" ELSE @]
        r2 == Wrapper(r1, first)
        currentHash == first.hash
        correct == ~checkExistPage(initConfig, currentHash) /\ homeUrl # <<>>
        done == IF correct THEN replaceStateOn(n2, r2, homeUrl, Undef)
                ELSE [n |-> n2, r |-> r2]
    IN  Commit(OpRec("create", homeUrl, Undef, 0,
                     IF correct THEN "corrected" ELSE "ok"),
               done.n, done.r)

\* subscribe (lines 150-152): subscribeToNavigationEvents (lines 17-42) calls
\* back at once with the current entry alone
RouterSubscribe ==
    /\ router.subscriber # "active"
    /\ Commit(OpRec("subscribe", <<>>, Undef, 0, "ok"), ThisNav,
              [Quiet(router) EXCEPT
                  !.subscriber = "active",
                  !.subPrev = currentEntry.url,
                  !.subCalls = <<[url |-> currentEntry.url, prev |-> NoStr,
                                  status |-> Undef]>>])

\* navigate (lines 159-161)
RouterNavigate(hash, state) ==
    LET n == navigateOn(ThisNav, hash, state)
        r == IF n.events # <<>> THEN Dispatch(Quiet(router), n.events[1])
             ELSE Quiet(router)
    IN  Commit(OpRec("navigate", hash, state, 0, n.result), n, r)

\* goBack and goToPrev (lines 166-175): back() of the navigation object,
\* which dispatches no navigate event
RouterGoBack == CoreBack(Undef) /\ router' = Quiet(router)

\* replaceState (lines 79-96) with a config object
RouterReplaceState(hash, state) ==
    LET done == replaceStateOn(ThisNav, Quiet(router), hash, state)
    IN  Commit(OpRec("replaceState", hash, state, 0, done.n.result), done.n, done.r)

\* hasPage (lines 182-186); the answer is the operation's result
RouterHasPage(hash) ==
    LET hashToCheck == IF hash # <<>> THEN hash ELSE currentEntry.hash
    IN  Commit(OpRec("hasPage", hash, Undef, 0,
                     IF checkExistPage(router.config, hashToCheck)
                     THEN "true" ELSE "false"),
               ThisNav, Quiet(router))

\* updateCurrentEntry (src/src/core/hashNavigation.ts lines 375-383) of the
\* navigation object in use
CoreUpdateCurrentEntry(state) ==
    Commit(OpRec("updateCurrentEntry", <<>>, state, 0, "ok"),
           updateCurrentEntryOn(ThisNav, state), Quiet(router))

\* getHash (line 188): currentEntry.value.getHash(); the answer is the
\* operation's hash
RouterGetHash ==
    Commit(OpRec("getHash", currentEntry.hash, Undef, 0, "ok"),
           ThisNav, Quiet(router))

\* getState (line 190): currentEntry.value.getState(); the answer is the
\* operation's state
RouterGetState ==
    Commit(OpRec("getState", <<>>, currentEntry.getState, 0, "ok"),
           ThisNav, Quiet(router))

(***************************************************************************)
(* The program runs until a write stores something that is no history      *)
(* entry into the list, or until history.go(0) reloads the document.       *)
(***************************************************************************)
Running == Intact(entries) /\ ~Reloaded

\* no host traversal is queued and no hashchange event is undelivered
Quiescent == pendingGo = <<>> /\ pendingEvt = <<>>

\* the bounds of a run: k entries created, t host tasks in flight, h host records
Within(k, t, h) ==
    /\ nextKey' <= k + 1
    /\ Len(pendingGo') + Len(pendingEvt') <= t
    /\ Len(hist') <= h

\* one step A of a program that is still running, within the bounds; the
\* store's own operations and the host's call nothing of the router's closure
Step(A, k, t) ==
    /\ Running /\ A /\ Within(k, t, MaxHist)
    /\ router' = Quiet(router) /\ call' = call

\* one step A of the router, which writes its closure itself
RouterStep(A, k, t) == Running /\ A /\ Within(k, t, MaxHist) /\ call' = call

\* the keys an application may pass: every key handed out so far, and one
\* that no entry has
KnownKeys == 1 .. nextKey

Next ==
    \/ \E h \in Hashes, s \in OptStates : Step(Navigate(h, s), MaxKeys, MaxTasks)
    \/ \E k \in KnownKeys, s \in OptStates : Step(TraverseTo(k, s), MaxKeys, MaxTasks)
    \/ Step(Back, MaxKeys, MaxTasks)
    \/ Step(Forward, MaxKeys, MaxTasks)
    \/ Step(GoToPrev, MaxKeys, MaxTasks)
    \/ \E s \in OptStates : Step(UpdateCurrentEntry(s), MaxKeys, MaxTasks)
    \/ \E h \in Hashes, s \in OptStates :
          Step(UpdateCurrentEntryHash(h, s), MaxKeys, MaxTasks)
    \/ \E c \in SubIds : Step(Subscribe(c), MaxKeys, MaxTasks)
    \/ \E c \in SubIds : Step(Unsubscribe(c), MaxKeys, MaxTasks)
    \/ Step(Create, MaxKeys, MaxTasks)
    \/ Step(Destroy, MaxKeys, MaxTasks)
    \/ \E d \in {-1, 1} : Step(NativeTraverse(d), MaxKeys, MaxTasks)
    \/ \E u \in ManualUrls : Step(ManualEdit(u), MaxKeys, MaxTasks)
    \/ Step(HostTraverse, MaxKeys, MaxTasks)
    \/ Step(DeliverHashChange, MaxKeys, MaxTasks)

Spec == Init /\ [][Next]_vars

(***************************************************************************)
(* Navigation alone: an application that pushes and traverses without      *)
(* passing any state, and the host's traversals and events.                *)
(***************************************************************************)
NavHashes == {<<"a">>, <<"b">>}

NextNav ==
    \/ \E h \in NavHashes : Step(Navigate(h, Undef), NavKeys, MaxTasks)
    \/ \E k \in KnownKeys : Step(TraverseTo(k, Undef), NavKeys, MaxTasks)
    \/ Step(Back, NavKeys, MaxTasks)
    \/ Step(Forward, NavKeys, MaxTasks)
    \/ Step(Create, NavKeys, MaxTasks)
    \/ Step(HostTraverse, NavKeys, MaxTasks)
    \/ Step(DeliverHashChange, NavKeys, MaxTasks)

SpecNav == Init /\ [][NextNav]_vars

(***************************************************************************)
(* A longer series of pushes, back and forward steps, with one subscriber. *)
(***************************************************************************)
NextDeep ==
    \/ \E h \in NavHashes : Step(Navigate(h, Undef), DeepKeys, DeepTasks)
    \/ Step(Back, DeepKeys, DeepTasks)
    \/ Step(Forward, DeepKeys, DeepTasks)
    \/ Step(Subscribe(1), DeepKeys, DeepTasks)
    \/ Step(HostTraverse, DeepKeys, DeepTasks)
    \/ Step(DeliverHashChange, DeepKeys, DeepTasks)

SpecDeep == Init /\ [][NextDeep]_vars

(***************************************************************************)
(* Hashes at the edge of getHash/createHash ("" and "/"), with and without *)
(* a state.                                                                *)
(***************************************************************************)
EdgeHashes == {<<>>, <<"/">>, <<"a">>}

NextEdge ==
    \/ \E h \in EdgeHashes, s \in {Undef, S1} : Step(Navigate(h, s), MaxKeys, MaxTasks)
    \/ Step(Back, MaxKeys, MaxTasks)
    \/ Step(Create, MaxKeys, MaxTasks)
    \/ Step(HostTraverse, MaxKeys, MaxTasks)
    \/ Step(DeliverHashChange, MaxKeys, MaxTasks)

SpecEdge == Init /\ [][NextEdge]_vars

(***************************************************************************)
(* Subscribers: two callbacks subscribe and cancel while the application   *)
(* navigates, the user traverses, and the store is created and destroyed.  *)
(***************************************************************************)
NextSub ==
    \/ \E c \in SubIds : Step(Subscribe(c), MaxKeys, MaxTasks)
    \/ \E c \in SubIds : Step(Unsubscribe(c), MaxKeys, MaxTasks)
    \/ \E s \in {Undef, S1} : Step(Navigate(<<"a">>, s), MaxKeys, MaxTasks)
    \/ Step(Back, MaxKeys, MaxTasks)
    \/ Step(Create, MaxKeys, MaxTasks)
    \/ Step(Destroy, MaxKeys, MaxTasks)
    \/ \E d \in {-1, 1} : Step(NativeTraverse(d), MaxKeys, MaxTasks)
    \/ Step(HostTraverse, MaxKeys, MaxTasks)
    \/ Step(DeliverHashChange, MaxKeys, MaxTasks)

SpecSub == Init /\ [][NextSub]_vars

(***************************************************************************)
(* Traversal by key: an application with one subscriber that pushes and    *)
(* calls traverseTo with keys it holds and keys no entry has, with and     *)
(* without a state.                                                        *)
(***************************************************************************)
NextKeyed ==
    \/ Step(Navigate(<<"a">>, Undef), NavKeys, MaxTasks)
    \/ \E k \in KnownKeys, s \in {Undef, S1} :
          Step(TraverseTo(k, s), NavKeys, MaxTasks)
    \/ Step(Subscribe(1), NavKeys, MaxTasks)
    \/ Step(HostTraverse, NavKeys, MaxTasks)
    \/ Step(DeliverHashChange, NavKeys, MaxTasks)

SpecKeyed == Init /\ [][NextKeyed]_vars

(***************************************************************************)
(* The earlier createHashNavigation: pushes, back and forward with and     *)
(* without a state, and the host's traversals and events.                  *)
(***************************************************************************)
NextCore ==
    \/ Step(CoreCreate, MaxKeys, MaxTasks)
    \/ \E h \in NavHashes : Step(CoreNavigate(h, Undef), MaxKeys, MaxTasks)
    \/ Step(CoreBack(Undef), MaxKeys, MaxTasks)
    \/ \E s \in {Undef, S1} : Step(CoreForward(s), MaxKeys, MaxTasks)
    \/ Step(HostTraverse, MaxKeys, MaxTasks)
    \/ Step(CoreDeliverHashChange, MaxKeys, MaxTasks)

SpecCore == CoreInit /\ [][NextCore]_vars

(***************************************************************************)
(* Host notifications: the user traverses with the browser's buttons and   *)
(* edits the fragment while the application, with one subscriber, pushes.  *)
(***************************************************************************)
\* what the user types: the URL that navigate('a') makes, and base#b
EditUrls == {<<"#", "/", "a">>, <<"#", "b">>}

NextHost ==
    \/ Step(Create, NavKeys, MaxTasks)
    \/ Step(Subscribe(1), NavKeys, MaxTasks)
    \/ Step(Navigate(<<"a">>, Undef), NavKeys, MaxTasks)
    \/ \E d \in {-1, 1} : Step(NativeTraverse(d), NavKeys, MaxTasks)
    \/ \E u \in EditUrls : Step(ManualEdit(u), NavKeys, MaxTasks)
    \/ Step(HostTraverse, NavKeys, MaxTasks)
    \/ Step(DeliverHashChange, NavKeys, MaxTasks)

SpecHost == Init /\ [][NextHost]_vars

(***************************************************************************)
(* In-place updates of the current entry's state, in an application that   *)
(* pushes, goes back and pushes again.                                     *)
(***************************************************************************)
NextUpdate ==
    \/ \E h \in NavHashes : Step(Navigate(h, Undef), DeepKeys, MaxTasks)
    \/ Step(Back, DeepKeys, MaxTasks)
    \/ Step(UpdateCurrentEntry(S1), DeepKeys, MaxTasks)
    \/ Step(HostTraverse, DeepKeys, MaxTasks)
    \/ Step(DeliverHashChange, DeepKeys, MaxTasks)

SpecUpdate == Init /\ [][NextUpdate]_vars

(***************************************************************************)
(* In-place rewrites of the current entry's hash, in the same application. *)
(***************************************************************************)
NextRewrite ==
    \/ \E h \in NavHashes : Step(Navigate(h, Undef), DeepKeys, MaxTasks)
    \/ Step(Back, DeepKeys, MaxTasks)
    \/ Step(UpdateCurrentEntryHash(<<"b">>, Undef), DeepKeys, MaxTasks)
    \/ Step(HostTraverse, DeepKeys, MaxTasks)
    \/ Step(DeliverHashChange, DeepKeys, MaxTasks)

SpecRewrite == Init /\ [][NextRewrite]_vars

(***************************************************************************)
(* The earlier createHashNavigation: pushes and reloads, with and without  *)
(* a state, and the host's reaction to them.                               *)
(***************************************************************************)
NextReload ==
    \/ Step(CoreCreate, MaxKeys, MaxTasks)
    \/ \E h \in NavHashes : Step(CoreNavigate(h, Undef), MaxKeys, MaxTasks)
    \/ \E s \in {Undef, S1} : Step(CoreReload(s), MaxKeys, MaxTasks)
    \/ Step(CoreBack(Undef), MaxKeys, MaxTasks)
    \/ Step(HostTraverse, MaxKeys, MaxTasks)
    \/ Step(CoreDeliverHashChange, MaxKeys, MaxTasks)

SpecReload == CoreInit /\ [][NextReload]_vars

(***************************************************************************)
(* The router: an application that creates it, navigates and goes back,    *)
(* and the host's traversals and events.                                   *)
(***************************************************************************)
\* hashes the application gives the router: "a", "b"
RouterHashes == {<<"a">>, <<"b">>}

NextRouter ==
    \/ \E c \in Configs : RouterStep(RouterCreate(c), NavKeys, MaxTasks)
    \/ \E h \in RouterHashes : RouterStep(RouterNavigate(h, Undef), NavKeys, MaxTasks)
    \/ RouterStep(RouterGoBack, NavKeys, MaxTasks)
    \/ Step(HostTraverse, NavKeys, MaxTasks)
    \/ Step(CoreDeliverHashChange, NavKeys, MaxTasks)

SpecRouter == CoreInit /\ [][NextRouter]_vars

(***************************************************************************)
(* The router's subscribers: an application that creates the router,       *)
(* subscribes a callback and navigates.                                    *)
(***************************************************************************)
NextNotify ==
    \/ \E c \in Configs : RouterStep(RouterCreate(c), MaxKeys, MaxTasks)
    \/ RouterStep(RouterSubscribe, MaxKeys, MaxTasks)
    \/ \E h \in RouterHashes : RouterStep(RouterNavigate(h, Undef), MaxKeys, MaxTasks)

SpecNotify == CoreInit /\ [][NextNotify]_vars

(***************************************************************************)
(* The router's replaceState: an application that creates the router,      *)
(* navigates, goes back and replaces the state, the hash or both.          *)
(***************************************************************************)
NextReplace ==
    \/ \E c \in Configs : RouterStep(RouterCreate(c), MaxKeys, MaxTasks)
    \/ RouterStep(RouterNavigate(<<"b">>, Undef), MaxKeys, MaxTasks)
    \/ RouterStep(RouterGoBack, MaxKeys, MaxTasks)
    \/ \E h \in {<<>>, <<"a">>}, s \in {Undef, S1} :
          RouterStep(RouterReplaceState(h, s), MaxKeys, MaxTasks)
    \/ Step(HostTraverse, MaxKeys, MaxTasks)

SpecReplace == CoreInit /\ [][NextReplace]_vars

(***************************************************************************)
(* The router's pages: an application that creates the router, navigates   *)
(* and asks whether pages exist.                                           *)
(***************************************************************************)
\* hashes the application navigates to: "a", "p/1"
VisitedHashes == {<<"a">>, <<"p", "/", "1">>}
\* hashes it asks hasPage about: none, "a", "#a", "b", "p/1"
PageHashes == {<<>>, <<"a">>, <<"#", "a">>, <<"b">>, <<"p", "/", "1">>}

NextPages ==
    \/ \E c \in Configs : RouterStep(RouterCreate(c), MaxKeys, MaxTasks)
    \/ \E h \in VisitedHashes : RouterStep(RouterNavigate(h, Undef), MaxKeys, MaxTasks)
    \/ \E h \in PageHashes : RouterStep(RouterHasPage(h), MaxKeys, MaxTasks)

SpecPages == CoreInit /\ [][NextPages]_vars

(***************************************************************************)
(* The route helpers (src/unnamed/part_002) on their own: isRouteMatch and *)
(* getRouteItem are pure, so a run is one call, from arguments drawn from  *)
(* the sets below to its result.                                           *)
(***************************************************************************)
\* one segment, or two joined by '/'
UpToTwo(segments) ==
    segments \cup {a \o <<"/">> \o b : a, b \in segments}

\* pattern segments: "a", ":i", ":i-x", ":" and the empty segment
PatternSegments ==
    {<<"a">>, <<":", "i">>, <<":", "i", "-", "x">>, <<":">>, <<>>}
\* path segments: "a", "b", "b-x" and the empty segment
PathSegments == {<<"a">>, <<"b">>, <<"b", "-", "x">>, <<>>}
\* query strings: "x", "x/y"
Queries == {<<"x">>, <<"x", "/", "y">>}

Patterns == UpToTwo(PatternSegments)
Paths == UpToTwo(PathSegments)
\* the hashes a helper is called with: a path, a path with a query string,
\* or null/undefined
CallHashes ==
    Paths \cup {p \o <<"?">> \o q : p \in Paths, q \in Queries} \cup {NoStr}

\* route maps: one route, or a route after one of two others
RouteMaps ==
    {<<[key |-> p, value |-> "r1"]>> : p \in Patterns}
    \cup UNION { {<<[key |-> p, value |-> "r1"], [key |-> q, value |-> "r2"]>> :
                     q \in Patterns \ {p}} :
                  p \in {<<"a">>, <<":", "i">>, <<"a", "/", ":", "i">>} }

\* the arguments of one call
CallInit(maps) ==
    /\ CoreAt(<<>>)
    /\ \E m \in maps, h \in CallHashes :
          call = [fn |-> "none", map |-> m, hash |-> h, result |-> Undef]

\* a helper returns: nothing but the call's record changes
Returns(fn, result) ==
    /\ call.fn = "none"
    /\ call' = [call EXCEPT !.fn = fn, !.result = result]
    /\ UNCHANGED << entries, currentIndex, currentURL, urlSync, listening,
                    nextKey, handle, previousCallEntry, hist, hostIndex,
                    pendingGo, pendingEvt, op, hostCalls, calls, router >>

\* isRouteMatch(pattern, hash), the pattern being the map's first key
IsRouteMatchCall == Returns("isRouteMatch", isRouteMatch(call.map[1].key, call.hash))

\* getRouteItem(map, hash); a null or undefined hash is not passed to it
GetRouteItemCall ==
    /\ call.hash # NoStr
    /\ Returns("getRouteItem", getRouteItem(call.map, call.hash))

NextMatch == IsRouteMatchCall

SpecMatch ==
    CallInit({m \in RouteMaps : Len(m) = 1}) /\ [][NextMatch]_vars

NextRoutes == GetRouteItemCall

SpecRoutes == CallInit(RouteMaps) /\ [][NextRoutes]_vars

\* getParamsFromUrl(pattern, hash), the pattern being the map's first key
GetParamsFromUrlCall ==
    Returns("getParamsFromUrl", getParamsFromUrl(call.map[1].key, call.hash))

NextParams == GetParamsFromUrlCall

SpecParams ==
    CallInit({m \in RouteMaps : Len(m) = 1}) /\ [][NextParams]_vars

(***************************************************************************)
(* Positions: an application that creates the store first, at the only     *)
(* record of the host's stack, and then pushes while the host is at rest;  *)
(* a user who moves with the browser's buttons; the host's traversals and  *)
(* events.                                                                 *)
(***************************************************************************)
NextPos ==
    \/ Step(op.name = "init" /\ Create, DeepKeys, MaxTasks)
    \/ \E h \in NavHashes : Step(listening /\ Quiescent /\ Navigate(h, Undef), DeepKeys, MaxTasks)
    \/ \E d \in {-1, 1} : Step(listening /\ NativeTraverse(d), DeepKeys, MaxTasks)
    \/ Step(HostTraverse, DeepKeys, MaxTasks)
    \/ Step(DeliverHashChange, DeepKeys, MaxTasks)

SpecPos == Init /\ [][NextPos]_vars

(***************************************************************************)
(* The earlier createHashNavigation and the router's getters: pushes with  *)
(* and without a state, rewrites of the current entry's url and state, and *)
(* reads of the current entry's hash and state.                            *)
(***************************************************************************)
NextEntry ==
    \/ Step(CoreCreate, MaxKeys, MaxTasks)
    \/ \E h \in NavHashes, s \in {Undef, S1} :
          Step(CoreNavigate(h, s), MaxKeys, MaxTasks)
    \/ Step(CoreUpdateCurrentEntryHash(<<"b">>), MaxKeys, MaxTasks)
    \/ RouterStep(CoreUpdateCurrentEntry(S1), MaxKeys, MaxTasks)
    \/ Step(CoreBack(Undef), MaxKeys, MaxTasks)
    \/ RouterStep(RouterGetHash, MaxKeys, MaxTasks)
    \/ RouterStep(RouterGetState, MaxKeys, MaxTasks)
    \/ Step(HostTraverse, MaxKeys, MaxTasks)
    \/ Step(CoreDeliverHashChange, MaxKeys, MaxTasks)

SpecEntry == CoreInit /\ [][NextEntry]_vars

(***************************************************************************)
(* Properties                                                              *)
(***************************************************************************)
EntryKeys(ents) == [j \in 1 .. Len(ents) |-> ents[j].key]

\* C1: whenever the store listens to the host and no host traversal or
\* notification is pending, the URL of the store's current entry is the URL
\* of the host's location.
HostAgreement ==
    (listening /\ Quiescent) => currentEntry.url = locationHref

\* C2: the entry list is never empty and 0 <= currentIndex < length.
IndexInRange ==
    /\ Len(entries) > 0
    /\ 0 <= currentIndex
    /\ currentIndex < Len(entries)

\* C3: a navigate(h) whose hash differs from the current entry's makes
\* exactly one host call, a pushState; drops every entry after the index it
\* started from and appends one new entry, so that the length is that index
\* + 2, currentIndex is the last position and canGoForward is false; the
\* entries up to the index it started from are unchanged.
BranchingPush ==
    [][ ( /\ op'.name = "navigate"
          /\ IsObject(currentEntry)
          /\ currentEntry.hash # op'.hash )
        => /\ Len(hostCalls') = 1
           /\ hostCalls'[1].fn = "pushState"
           /\ Len(entries') = currentIndex + 2
           /\ currentIndex' = Len(entries') - 1
           /\ ~canGoForward'
           /\ SubSeq(entries', 1, currentIndex + 1)
                  = SubSeq(entries, 1, currentIndex + 1)
           /\ \A j \in 1 .. Len(entries) :
                  entries[j].key # entries'[Len(entries')].key ]_vars

\* a push from the middle of the list has just dropped a forward entry
BranchingPushSeen ==
    /\ op.name = "navigate"
    /\ op.result = "pushed"
    /\ op.preIndex = 0
    /\ op.preLength = 3
    /\ Len(entries) = 2
    /\ currentIndex = 1
    /\ Len(hostCalls) = 1

\* C4: traverseTo(key) with a key that is in the list leaves the sequence of
\* keys as it was, makes the position of that key the current index, and
\* calls history.go exactly once, with delta = that position - the index it
\* started from.
TraverseToKnownKey ==
    [][ ( /\ op'.name = "traverseTo"
          /\ op'.state = Undef
          /\ FindKey(entries, op'.key) >= 0 )
        => /\ EntryKeys(entries') = EntryKeys(entries)
           /\ currentIndex' = FindKey(entries, op'.key)
           /\ hostCalls' = << HostCall("go", Undef, NoStr,
                                      FindKey(entries, op'.key) - currentIndex) >>
      ]_vars

\* a traverseTo has just gone two entries back
TraverseToSeen ==
    /\ op.name = "traverseTo"
    /\ op.result = "ok"
    /\ op.preIndex = 2
    /\ currentIndex = 0
    /\ entries[1].key = op.key
    /\ hostCalls = << HostCall("go", Undef, NoStr, -2) >>

\* C5: back() called where canGoBack holds, followed at once by forward(),
\* leaves a current entry with the key and the state of the one back()
\* started from, and the same list of entries.
BackForwardRoundTrip ==
    (op.name = "forward" /\ op.mark # NoMark)
        => /\ currentEntry.key = op.mark.key
           /\ currentEntry.state = op.mark.state
           /\ entries = op.mark.entries

\* C6: a navigate(h, s) that repeats the navigate(h, s) before it makes no
\* new entry, does not move the index, calls neither pushState nor
\* replaceState and notifies nobody.
NavigateIdempotent ==
    (op.name = "navigate" /\ op.again)
        => /\ Len(entries) = op.preLength
           /\ currentIndex = op.preIndex
           /\ hostCalls = <<>>
           /\ calls = NoCalls

\* C7: a callback that is subscribed throughout an operation is invoked
\* exactly once by it when the operation changes the current entry, and not
\* at all when it leaves the current entry as it was.
ExactlyOnceDelivery ==
    [][ \A c \in SubIds :
          (handle[c] = "active" /\ handle'[c] = "active")
              => Len(calls'[c]) = IF currentEntry' # currentEntry THEN 1 ELSE 0
      ]_vars

\* C8: subscribe(callback) invokes the callback exactly once, with the current
\* entry, the entry before it (null at index 0) and the current entry's hash.
SubscribeCallsOnce ==
    op.name = "subscribe"
        => /\ op.result = "ok"
           /\ calls[op.key] = << CallRec(entries, currentIndex) >>
           /\ \A c \in SubIds \ {op.key} : calls[c] = <<>>

\* C9: once its cancellation function has been called a callback is not
\* invoked again; the cancellation leaves the other subscriptions, the store
\* and the host as they were, so that the others are still notified; calling
\* the cancellation function a second time changes nothing.
CancellationHolds ==
    [][ /\ \A c \in SubIds : handle'[c] = "cancelled" => calls'[c] = <<>>
        /\ op'.name = "unsubscribe"
              => /\ handle'[op'.key] = "cancelled"
                 /\ \A d \in SubIds \ {op'.key} :
                        /\ handle'[d] = handle[d]
                        /\ previousCallEntry'[d] = previousCallEntry[d]
                 /\ UNCHANGED << storeVars, hostVars, urlSync, listening, nextKey >>
        /\ (op'.name = "unsubscribe" /\ handle[op'.key] = "cancelled")
              => UNCHANGED << subVars, storeVars, hostVars, urlSync, listening,
                              nextKey >>
        /\ \A d \in SubIds :
              ( /\ handle[d] = "active" /\ handle'[d] = "active"
                /\ \E c \in SubIds : handle[c] = "cancelled"
                /\ currentEntry' # currentEntry )
              => Len(calls'[d]) >= 1
      ]_vars

\* a push has just notified the callback that is still subscribed and not
\* the one that was cancelled
CancellationSeen ==
    /\ op.name = "navigate"
    /\ op.result = "pushed"
    /\ handle[1] = "cancelled"
    /\ handle[2] = "active"
    /\ calls[1] = <<>>
    /\ Len(calls[2]) = 1

\* the host's own steps and the dispatch of a hashchange event
HostNotifications == {"native", "edit", "traverse", "dropped", "hashchange"}

\* C10: destroy() invokes no callback and leaves no subscription and no
\* listener; from then on no callback registered before it is invoked by a
\* navigate or by a host notification, and until create() is called again a
\* host notification leaves the entries and the current index as they are.
DestroySilences ==
    [][ /\ op'.name = "destroy"
              => /\ calls' = NoCalls
                 /\ ~listening'
                 /\ \A c \in SubIds : handle'[c] # "active"
        /\ \A c \in SubIds :
              (~urlSync /\ handle[c] = "cancelled" /\ handle'[c] = "cancelled")
                  => calls'[c] = <<>>
        /\ (~listening /\ op'.name \in HostNotifications)
              => UNCHANGED << entries, currentIndex >>
      ]_vars

\* after a destroy that cancelled a subscription, a hashchange event has just
\* been dispatched to nobody
DestroySeen ==
    /\ ~urlSync
    /\ ~listening
    /\ op.name = "dropped"
    /\ \E c \in SubIds : handle[c] = "cancelled"
    /\ locationHref # currentEntry.url

ForwardAtEndIsSilent ==
    [][(op'.name = "forward" /\ currentIndex >= Len(entries) - 1)
          => /\ op'.result = "null"
             /\ entries' = entries
             /\ currentIndex' = currentIndex
             /\ hostCalls' = <<>>
             /\ UNCHANGED hostVars]_vars

\* forward() has just returned null at the last of several entries of a
\* created store without any host call
ForwardAtEndSeen ==
    /\ op.name = "forward"
    /\ op.result = "null"
    /\ listening
    /\ Len(entries) >= 2
    /\ currentIndex = Len(entries) - 1
    /\ hostCalls = <<>>

\* the URL of the hashchange event that the next step delivers
NotifiedUrl == Head(pendingEvt)

\* the positions (from 1) of the entries whose url is u
Holders(u) == {j \in 1 .. Len(entries) : entries[j].url = u}

\* C15: known transition.  When the handler takes a notification whose URL is
\* the URL of an entry other than the current one, no entry is added or
\* removed, currentIndex becomes the position of such an entry, and that
\* entry's state is the host's current state afterwards (it is replaced when
\* the two differ); every other entry stays as it was.
KnownTransition ==
    [][(/\ op'.name = "hashchange"
        /\ pendingEvt # <<>>
        /\ ~(IsObject(currentEntry) /\ currentEntry.url = NotifiedUrl)
        /\ Holders(NotifiedUrl) # {})
          => \E j \in Holders(NotifiedUrl) :
                /\ currentIndex' = j - 1
                /\ entries' = [entries EXCEPT ![j].state = historyState]]_vars

\* the handler has just moved a store of several entries to an entry that was
\* not current and replaced that entry's state by the host's
KnownTransitionSeen ==
    /\ op.name = "hashchange"
    /\ op.result = "known"
    /\ Len(entries) >= 2
    /\ currentIndex # op.preIndex
    /\ currentEntry.state = historyState
    /\ currentEntry.state = Null

\* C16: unknown transition.  When the handler takes a notification whose URL
\* no entry has, the entries after currentIndex are dropped, one new entry
\* with that URL and the host's current state is appended and becomes current
\* (currentIndex = length - 1): the list that a pushing navigate to that URL
\* with that state leaves, reached without any window.history call.
UnknownTransition ==
    [][(/\ op'.name = "hashchange"
        /\ pendingEvt # <<>>
        /\ Holders(NotifiedUrl) = {})
          => LET kept == IF currentIndex < Len(entries) - 1
                         THEN SubSeq(entries, 1, currentIndex + 1)
                         ELSE entries
                 added == entries'[Len(entries')]
             IN  /\ Len(entries') = Len(kept) + 1
                 /\ SubSeq(entries', 1, Len(kept)) = kept
                 /\ added.url = NotifiedUrl
                 /\ added.hash = getHash(NotifiedUrl)
                 /\ added.state = historyState
                 /\ added.key \notin {entries[j].key : j \in 1 .. Len(entries)}
                 /\ currentIndex' = Len(entries') - 1
                 /\ hostCalls' = <<>>
                 /\ hist' = hist /\ hostIndex' = hostIndex]_vars

\* the handler has just dropped a forward entry and appended the entry of a
\* URL typed into the address bar
UnknownTransitionSeen ==
    /\ op.name = "hashchange"
    /\ op.result = "unknown"
    /\ op.preLength = 2
    /\ op.preIndex = 0
    /\ Len(entries) = 2
    /\ currentIndex = 1
    /\ currentEntry.url = locationHref

\* C17: a notification whose URL is the current entry's URL is ignored:
\* entries (and so every entry's state) and currentIndex stay as they were and
\* no subscriber is called.
RepeatedNotificationIgnored ==
    [][(/\ op'.name = "hashchange"
        /\ pendingEvt # <<>>
        /\ IsObject(currentEntry)
        /\ currentEntry.url = NotifiedUrl)
          => /\ entries' = entries
             /\ currentIndex' = currentIndex
             /\ calls' = NoCalls]_vars

\* the handler has just ignored a notification for the current entry, whose
\* state differs from the host's, while a subscriber is active
RepeatedNotificationSeen ==
    /\ op.name = "hashchange"
    /\ op.result = "ignored"
    /\ handle[1] = "active"
    /\ Len(entries) >= 2
    /\ currentEntry.state # historyState

\* a state as the contract reads it: an absent state is the empty mapping
Mapping(s) == IF s \in {Undef, Null} THEN EmptyObj ELSE s

\* C18: state-only navigate.  navigate(h, {state: s}) with h the current
\* entry's hash and s (an absent s included) structurally different from the
\* current entry's state makes exactly one replaceState call carrying s and
\* no pushState, keeps the length and currentIndex, sets the current entry's
\* state to s and keeps its key, and calls each subscriber exactly once, with
\* the updated entry.
StateOnlyNavigate ==
    [][(/\ op'.name = "navigate"
        /\ IsObject(currentEntry)
        /\ op'.hash = currentEntry.hash
        /\ Mapping(op'.state) # Mapping(currentEntry.state)
        /\ JsonStringify(op'.state) # JsonStringify(currentEntry.state))
          => /\ Len(hostCalls') = 1
             /\ hostCalls'[1].fn = "replaceState"
             /\ Mapping(hostCalls'[1].state) = Mapping(op'.state)
             /\ Len(entries') = Len(entries)
             /\ currentIndex' = currentIndex
             /\ Mapping(currentEntry'.state) = Mapping(op'.state)
             /\ currentEntry'.key = currentEntry.key
             /\ \A c \in SubIds :
                   (handle[c] = "active" /\ handle'[c] = "active")
                       => /\ Len(calls'[c]) = 1
                          /\ calls'[c][1].entry = currentEntry']_vars

\* the entries at the positions other than the current one
Others(ents, i) == [j \in (1 .. Len(ents)) \ {i + 1} |-> ents[j]]

\* C19: updateCurrentEntry({state: s}) makes exactly one replaceState call
\* and no pushState, sets the current entry's state to s, and leaves the
\* length, currentIndex, the current entry's key, url and hash and every
\* other entry as they were.
UpdateCurrentEntryFrame ==
    [][op'.name = "updateCurrentEntry"
          => /\ Len(hostCalls') = 1
             /\ hostCalls'[1].fn = "replaceState"
             /\ hostCalls'[1].state = op'.state
             /\ Len(entries') = Len(entries)
             /\ currentIndex' = currentIndex
             /\ currentEntry'.state = op'.state
             /\ currentEntry'.key = currentEntry.key
             /\ currentEntry'.url = currentEntry.url
             /\ currentEntry'.hash = currentEntry.hash
             /\ Others(entries', currentIndex) = Others(entries, currentIndex)]_vars

\* C20: updateCurrentEntryHash(h) makes one replaceState call with the URL
\* resolved from h and no pushState; afterwards the current entry's url is
\* that URL and its hash is the hash of that URL, its key is the same, and
\* the length, currentIndex and every other entry are as they were.
UpdateCurrentEntryHashFrame ==
    [][op'.name = "updateCurrentEntryHash"
          => /\ Len(hostCalls') = 1
             /\ hostCalls'[1].fn = "replaceState"
             /\ hostCalls'[1].url = ResolveHash(op'.hash)
             /\ Len(entries') = Len(entries)
             /\ currentIndex' = currentIndex
             /\ currentEntry'.url = ResolveHash(op'.hash)
             /\ currentEntry'.hash = getHash(ResolveHash(op'.hash))
             /\ currentEntry'.key = currentEntry.key
             /\ Others(entries', currentIndex) = Others(entries, currentIndex)]_vars

\* the window.history.replaceState calls among the host calls hc
ReplaceCalls(hc) == SelectSeq(hc, LAMBDA c : c.fn = "replaceState")

\* C21: reload(options) neither appends nor removes an entry nor changes
\* currentIndex, and the same holds when the host's reaction to its fragment
\* assignment is delivered just after it; without a state it makes no
\* replaceState call and keeps the current entry's state, with a state s it
\* makes one replaceState call and the current entry's state becomes s.
ReloadKeepsStore ==
    [][/\ op'.name = "reload"
          => /\ Len(entries') = Len(entries)
             /\ currentIndex' = currentIndex
             /\ IF op'.state = Undef
                THEN /\ ReplaceCalls(hostCalls') = <<>>
                     /\ currentEntry'.state = currentEntry.state
                ELSE /\ Len(ReplaceCalls(hostCalls')) = 1
                     /\ currentEntry'.state = op'.state
       /\ (op.name = "reload" /\ op'.name = "hashchange" /\ Len(pendingEvt) = 1)
          => /\ Len(entries') = Len(entries)
             /\ currentIndex' = currentIndex]_vars

\* C22: when create is called with a configuration that has a home route
\* while the document's fragment is empty, then as create returns the current
\* hash is the home hash, onChange has been invoked exactly once and the
\* store holds exactly one entry.
CreateAtEmptyFragment ==
    [][(op'.name = "create" /\ op'.hash # <<>> /\ locationHash = <<>>)
          => /\ getHash(currentEntry'.url) = op'.hash
             /\ Len(router'.onChange) = 1
             /\ Len(entries') = 1]_vars

\* create was called at an empty fragment, after earlier navigations
CreateAtEmptyFragmentSeen ==
    /\ op.name = "create" /\ op.hash # <<>> /\ op.preLength > 1
    /\ \E j \in 1 .. Len(hostCalls) : hostCalls[j].fn = "location.hash"
    /\ Len(router.onChange) = 1

\* hash matches one of the route patterns of configuration cfg
MatchesRoute(cfg, hash) ==
    \E j \in 1 .. Len(cfg.routeNames) : isRouteMatch(cfg.routeNames[j], hash)

HasPageMatchesPatterns ==
    [][op'.name = "hasPage"
          => LET h == IF op'.hash # <<>> THEN op'.hash ELSE getHash(currentEntry.url)
                 bare == IF h # <<>> /\ Head(h) = "#" THEN Tail(h) ELSE h
             IN  (op'.result = "true")
                    <=> (router.config # NoConfig /\ MatchesRoute(router.config, bare))]_vars

\* C25: every invocation of a callback given to the router's subscribe
\* carries a status: "success" when the hash of the entry it delivers matches
\* a configured route, "notfound" otherwise (so after navigate(h) with an
\* unmatched h).
SubscriberStatus ==
    \A j \in 1 .. Len(router.subCalls) :
        router.subCalls[j].status =
            IF MatchesRoute(router.config, getHash(router.subCalls[j].url))
            THEN "success" ELSE "notfound"

\* C26: replaceState({ state: s }) without a hash updates the state of the
\* current entry to s without navigating: afterwards the current entry's
\* state is s, and the store's length, its current index and the current
\* hash are what they were.
ReplaceStateOnly ==
    [][(op'.name = "replaceState" /\ op'.hash = <<>> /\ Truthy(op'.state))
          => /\ currentEntry'.state = op'.state
             /\ Len(entries') = Len(entries)
             /\ currentIndex' = currentIndex
             /\ getHash(currentEntry'.url) = getHash(currentEntry.url)]_vars

\* C27: the onChange given to the router's create is never invoked twice in
\* a row with entries of the same URL: over the navigations and the host's
\* notifications that follow a create, each invocation carries a URL other
\* than the one the invocation before it carried (the first one of a create
\* has none before it).
OnChangeNeverRepeats ==
    [][\A j \in 1 .. Len(router'.onChange) :
          router'.onChange[j] #
              (IF j > 1 THEN router'.onChange[j - 1]
               ELSE IF op'.name = "create" THEN NoStr
               ELSE router.prevLocation)]_vars

\* a navigation event that carried the URL of the last onChange invocation
\* was kept from onChange
OnChangeRepeatSeen ==
    /\ op.name = "navigate" /\ op.result = "pushed"
    /\ router.config # NoConfig
    /\ router.onChange = <<>>
    /\ router.prevLocation = currentEntry.url

\* str has a query string
HasQuery(str) == \E j \in 1 .. Len(str) : str[j] = "?"

\* the segment-by-segment rule: as many '/'-separated segments, and at each
\* position a pattern segment that starts with ':' over a non-empty path
\* segment, or two equal segments
SegmentsAgree(pattern, path) ==
    LET ps == Split(pattern, "/")
        hs == Split(path, "/")
    IN  /\ Len(ps) = Len(hs)
        /\ \A j \in 1 .. Len(ps) :
              \/ ps[j] # <<>> /\ Head(ps[j]) = ":" /\ hs[j] # <<>>
              \/ ps[j] = hs[j]

\* C29: for every pattern and every path without a query string,
\* isRouteMatch answers true exactly when the segments agree by the
\* segment-by-segment rule; a null or undefined path never matches.
MatchIsSegmentwise ==
    (call.fn = "isRouteMatch" /\ ~HasQuery(call.hash))
        => (call.result <=> (call.hash # NoStr
                             /\ SegmentsAgree(call.map[1].key, call.hash)))

\* C30: a query string does not affect matching: isRouteMatch answers for
\* path + '?' + q what it answers for path, whether the pattern's last
\* segment is static or a ':name' parameter.
QueryIsIgnored ==
    (call.fn = "isRouteMatch" /\ call.hash # NoStr /\ HasQuery(call.hash))
        => (call.result
              <=> isRouteMatch(call.map[1].key, Split(call.hash, "?")[1]))

\* the value of the first route of map that matches hash, undefined if none
RECURSIVE FirstMatch(_, _)
FirstMatch(map, hash) ==
    IF map = <<>> THEN Undef
    ELSE IF isRouteMatch(map[1].key, hash) THEN map[1].value
    ELSE FirstMatch(Tail(map), hash)

\* C28: when several patterns of the map match a path, getRouteItem selects
\* the first matching pattern in the order the patterns were supplied in.
FirstMatchWins ==
    call.fn = "getRouteItem" => call.result = FirstMatch(call.map, call.hash)

\* the positions of the pattern segments that start with ':'
ParamPositions(ps) == {j \in 1 .. Len(ps) : ps[j] # <<>> /\ Head(ps[j]) = ":"}

\* str up to its first '?'
RECURSIVE BeforeQuery(_)
BeforeQuery(str) ==
    IF str = <<>> \/ Head(str) = "?" THEN <<>>
    ELSE <<Head(str)>> \o BeforeQuery(Tail(str))

\* C31: for a pattern (with distinct parameter names) and a path with as
\* many '/'-separated segments, getParamsFromUrl binds the name of every
\* ':name' pattern segment to the path segment at its position without its
\* '?query', and binds nothing else; with different segment counts the
\* result is the empty mapping and nothing is thrown.
ParamsAreExtracted ==
    (call.fn = "getParamsFromUrl" /\ call.hash # NoStr)
        => LET ps == Split(call.map[1].key, "/")
               hs == Split(call.hash, "/")
           IN  IF Len(ps) # Len(hs) THEN call.result = {}
               ELSE (\A i, j \in ParamPositions(ps) : ps[i] = ps[j] => i = j)
                       => call.result =
                             {[name |-> Tail(ps[j]), value |-> BeforeQuery(hs[j])] :
                                  j \in ParamPositions(ps)}

\* two parameters were extracted from a path that carries a query string
ParamsExtractedSeen ==
    /\ call.fn = "getParamsFromUrl"
    /\ call.map[1].key = <<":", "i", "/", ":", "i", "-", "x">>
    /\ call.hash = <<"a", "/", "b", "?", "x">>
    /\ call.result = {[name |-> <<"i">>, value |-> <<"a">>],
                      [name |-> <<"i", "-", "x">>, value |-> <<"b">>]}

\* the URLs of a list of entries or of host records
Urls(list) == [j \in 1 .. Len(list) |-> list[j].url]

\* C32: for a store created at the only record of the host's stack, whenever
\* no host traversal or notification is pending the URLs of the store's
\* entries are, in order, the URLs of the host's records from the creation
\* position on, and currentIndex is the host's position relative to it, also
\* when two entries carry the same URL and the user moves with the browser's
\* back and forward buttons.
PositionalAgreement ==
    (listening /\ Quiescent)
        => /\ Urls(entries) = Urls(hist)
           /\ currentIndex = hostIndex

\* C33: when back(), forward() or traverseTo() is followed by a pushing
\* navigate(h) while the host has not yet delivered the notification of the
\* traversal, the delivery of that notification moves no index and adds or
\* removes no entry: the current entry stays the one navigate(h) appended.
LateNotification ==
    [][(/\ op'.name = "hashchange" /\ listening
        /\ op.name = "navigate" /\ op.result = "pushed")
          => /\ EntryKeys(entries') = EntryKeys(entries)
             /\ currentIndex' = currentIndex]_vars

\* C34: traverseTo(key, {state: s}) to an entry other than the current one
\* sets the state of the store's target entry to s and, in the host's stack,
\* changes only the state of the record at the target position, to s: the
\* URL and the state of the record that was current before the call stay.
TraverseToStateFrame ==
    [][(op'.name = "traverseTo" /\ op'.result = "ok" /\ Truthy(op'.state))
          => LET target == FindKey(entries, op'.key)
                 there == hostIndex + (target - currentIndex)
             IN  /\ entries'[target + 1].state = op'.state
                 /\ hist'[hostIndex + 1] = hist[hostIndex + 1]
                 /\ (there >= 0 /\ there < Len(hist))
                       => hist'[there + 1] =
                             [url |-> hist[there + 1].url, state |-> op'.state]]_vars

\* C35: every entry that navigate or the handling of an unknown host
\* notification appends carries, in its index field, the position it occupies
\* in the list right after the append, also when the append discarded a
\* forward branch.
AppendedIndexIsPosition ==
    [][((op'.name = "navigate" /\ op'.result = "pushed")
        \/ (op'.name = "hashchange" /\ op'.result = "unknown"))
       => /\ Len(entries') > 0
          /\ entries'[Len(entries')].index = Len(entries') - 1]_vars

\* C36: for every entry of the store, getHash() answers the hash derived from
\* the entry's current url, also after updateCurrentEntryHash rewrote the url
\* and after a state replacement rebuilt the entry; the router's getHash()
\* answers the same for the current entry.
GetHashFollowsUrl ==
    /\ \A j \in 1 .. Len(entries) :
          IsObject(entries[j]) => entries[j].hash = getHash(entries[j].url)
    /\ (op.name = "getHash" /\ IsObject(currentEntry))
          => op.hash = getHash(currentEntry.url)

\* C37: for every entry of the store, getState() answers the entry's state
\* field, also after a state-only navigate, updateCurrentEntry, back with a
\* state and a host notification; so the router's getState() answers the
\* state last written to the current entry.
GetStateReturnsState ==
    /\ \A j \in 1 .. Len(entries) :
          IsObject(entries[j]) => entries[j].getState = entries[j].state
    /\ (op.name = "getState" /\ IsObject(currentEntry))
          => op.state = currentEntry.state

\* C38: the state of every entry of the store is a mapping, the empty one
\* when none was supplied, and never null or undefined: after create in a
\* document whose host state is empty, after navigate and updateCurrentEntry
\* without a state, and after host notifications for entries pushed without
\* a state.
StateIsAlwaysMapping ==
    \A j \in 1 .. Len(entries) :
        IsObject(entries[j]) => entries[j].state \notin {Null, Undef}

\* C39: for every hash h, the empty one included, a navigate(h) that appends
\* an entry leaves a current entry whose hash is h, so that a navigate(h)
\* repeated at once finds the same location.
HashRoundTrip ==
    [][(op'.name = "navigate" /\ op'.result = "pushed")
          => currentEntry'.hash = op'.hash]_vars

\* C40: the navigation object that the router exports as its navigation
\* property is, in every reachable state and so also after create, the one
\* that navigate, goBack, replaceState, getHash, getState and hasPage use.
ExportedNavigationIsInUse ==
    router.navigation = router.hashNavigation

====
